---------------------------- MODULE Spec2Model ----------------------------
(***************************************************************************)
(* The maker/checker document workflow of OfficeApps: Proforma Invoices,   *)
(* Packing Lists and Commercial Invoices behind the REST API of            *)
(* OfficeApps/api.py, over the tables of OfficeApps/models.py, written     *)
(* through the serializers of OfficeApps/serializers.py.                   *)
(*                                                                         *)
(* One action is one HTTP request handled to completion: requests are      *)
(* synchronous and the handlers run one after another.  A handler is an    *)
(* operator from the database and the request to the database it leaves    *)
(* and the response it gives; its IF chain is the handler's chain of early *)
(* returns.  A table is a sequence of rows and a row's primary key is its  *)
(* index.                                                                  *)
(***************************************************************************)
EXTENDS Integers, Sequences, FiniteSets, TLC

\* Bounds of the model.
MaxWrites == 1      \* writing requests handled after the initial state
MaxRequests == 2    \* requests handled after the initial state
MaxDocs == 2        \* documents stored of each type
MaxItems == 2       \* rows of each line-item, container and container-item table

\* A null DateTimeField.
NullTime == 0
\* A null ForeignKey.
None == "None"

VARIABLES
    db,         \* the database: its tables, and `now`, the latest time read into a row
    writes,     \* how many requests have changed the database since the initial state
    handled,    \* how many requests have been handled since the initial state
    resp,       \* the last request and the response it got
    inflight    \* the requests being served side by side: how far each has
                \* come, and what it holds in memory

vars == <<db, writes, handled, resp, inflight>>

-----------------------------------------------------------------------------
(* Users and roles: api.py _is_maker, _is_checker, _is_admin *)

Users == {"admin", "maker", "checker", "guest"}

is_superuser(user) == user = "admin"

user_groups(user) ==
    CASE user = "maker" -> {"Maker"}
      [] user = "checker" -> {"Checker"}
      [] OTHER -> {}

\* A role check that asks for no role, to test the properties against.
any_user_is_maker(user) == TRUE

_is_maker(user) == is_superuser(user) \/ "Maker" \in user_groups(user)

_is_checker(user) == is_superuser(user) \/ "Checker" \in user_groups(user)

_is_admin(user) == is_superuser(user)

-----------------------------------------------------------------------------
(* Framework helpers *)

HTTP_200_OK == 200
HTTP_201_CREATED == 201
HTTP_400_BAD_REQUEST == 400
HTTP_403_FORBIDDEN == 403
HTTP_404_NOT_FOUND == 404
HTTP_405_METHOD_NOT_ALLOWED == 405
HTTP_500_INTERNAL_SERVER_ERROR == 500

\* What a handler returns: the database it leaves and its Response, whose
\* body is a detail message or, with ResponseData, a list.
Response(d, code, detail) ==
    [db |-> d, code |-> code, detail |-> detail, data |-> <<>>]

ResponseData(d, code, data) ==
    [db |-> d, code |-> code, detail |-> "", data |-> data]

\* get_object() raising Http404
NotFound(d) == Response(d, HTTP_404_NOT_FOUND, "Not found.")

\* timezone.now() of the request being handled: later than every stored time.
timezone_now(d) == d.now + 1

\* A lookup that finds inactive rows too, to test the properties against.
get_object_inactive_too(table, pk) == pk \in DOMAIN table

\* get_queryset().filter(is_active=True), then get_object()'s lookup by pk.
get_object(table, pk) == pk \in DOMAIN table /\ table[pk].is_active

\* The fields of a request body a serializer accepts; read-only ones are dropped.
validated_data(body, writable) ==
    [f \in (DOMAIN body) \cap writable |-> body[f]]

\* ModelSerializer.update: setattr for every validated field, then save().
ModelSerializer_update(instance, data) ==
    [f \in DOMAIN instance |-> IF f \in DOMAIN data THEN data[f] ELSE instance[f]]

\* BaseModel.deactivate(commit=True)
BaseModel_deactivate(row, t) ==
    [row EXCEPT !.is_active = FALSE, !.deactivated_at = t]

\* An audit trail that records nothing, to test the properties against.
AuditTrail_create_nothing(table, invoice, action, actor, notes, t) == table

\* f"{seq:04d}": the decimal digits of seq, with zeros before them up to four.
RECURSIVE digits(_)
digits(n) == IF n < 10 THEN <<n>> ELSE Append(digits(n \div 10), n % 10)

RECURSIVE zero_pad(_, _)
zero_pad(s, width) == IF Len(s) >= width THEN s ELSE zero_pad(<<0>> \o s, width)

\* A numbering that counts the active rows only, to test the properties against.
generate_number_active_only(table, letters, year) ==
    LET seq == Cardinality({pk \in DOMAIN table :
                    /\ table[pk].number[1] = letters /\ table[pk].number[2] = year
                    /\ table[pk].is_active}) + 1
    IN  <<letters, year, zero_pad(digits(seq), 4)>>

\* A document number "PI-2025-0001" is kept as its parts: the type's letters,
\* the year and the digits after the last dash.
\* <Model>.objects.filter(number__startswith=prefix).count() + 1, formatted
\* after the prefix f"{letters}-{year}-".
generate_number(table, letters, year) ==
    LET seq == Cardinality({pk \in DOMAIN table :
                    table[pk].number[1] = letters /\ table[pk].number[2] = year}) + 1
    IN  <<letters, year, zero_pad(digits(seq), 4)>>

\* <Model>AuditTrail.objects.create(...): timestamp is auto_now_add.
AuditTrail_create(table, invoice, action, actor, notes, t) ==
    Append(table, [invoice |-> invoice, action |-> action, actor |-> actor,
                   notes |-> notes, timestamp |-> t])

RECURSIVE SumSeq(_)
SumSeq(s) == IF s = <<>> THEN 0 ELSE Head(s) + SumSeq(Tail(s))

\* <Invoice>.recalc_total: the sum of the amounts of the invoice's active line items.
recalc_total(items, invoice) ==
    SumSeq([i \in 1 .. Len(items) |->
        IF items[i].invoice = invoice /\ items[i].is_active THEN items[i].amount_usd ELSE 0])

\* Decimal columns are kept as integers of their last place: a quantity
\* (decimal_places=3) in thousandths, a price and an amount (decimal_places=2)
\* in cents.  Storing a Decimal in a column with fewer places rounds it half
\* to even, as the default decimal context does: n / d rounded to an integer.
round_half_even(n, d) ==
    LET q == n \div d
        r == n % d
    IN  IF 2 * r < d THEN q
        ELSE IF 2 * r > d THEN q + 1
        ELSE IF q % 2 = 0 THEN q ELSE q + 1

\* <Invoice>LineItem.save: amount_usd = quantity * unit_price_usd; quantize()
\* with a DecimalTuple raises, the plain product is kept and the column
\* stores it rounded to cents.
LineItem_amount(item) == round_half_even(item.quantity * item.unit_price_usd, 1000)

\* The row <Invoice>LineItem.save stores, in place or appended.
LineItem_store(table, item_id, item) ==
    LET saved == [item EXCEPT !.amount_usd = LineItem_amount(item)] IN
    IF item_id \in DOMAIN table THEN [table EXCEPT ![item_id] = saved]
    ELSE Append(table, saved)

\* invoice.line_items.get(pk=item_id, is_active=True)
line_items_get(table, pk, item_id) ==
    /\ item_id \in DOMAIN table
    /\ table[item_id].invoice = pk
    /\ table[item_id].is_active

\* A new line-item row before the request's fields are set.
NewLineItem(pk) ==
    [invoice |-> pk, item_code |-> "", description |-> <<>>, quantity |-> 0,
     unit_price_usd |-> 0, amount_usd |-> 0, is_active |-> TRUE,
     deactivated_at |-> NullTime]

\* <Invoice>LineItemSerializer: every column but id, the timestamps and
\* amount_usd; the parent invoice is writable.
LineItemSerializer_writable ==
    {"invoice", "item_code", "description", "quantity", "unit_price_usd", "is_active"}

\* serializer.is_valid for a line item: a parent named must be a stored invoice.
LineItemSerializer_is_valid(invoices, data) ==
    "invoice" \in DOMAIN data => data.invoice \in DOMAIN invoices

\* payload = request.data.copy(); payload["invoice"] = invoice.id
with_invoice(body, pk) ==
    [f \in (DOMAIN body) \cup {"invoice"} |-> IF f = "invoice" THEN pk ELSE body[f]]

-----------------------------------------------------------------------------
(* Proforma Invoice: models.py ProformaInvoice, api.py ProformaInvoiceViewSet *)

\* ProformaInvoiceSerializer: fields = "__all__" minus read_only_fields.  Of the
\* columns the model keeps, invoice_number stands for the plain header columns.
\* A serializer without read_only_fields, to test the properties against.
ProformaInvoiceSerializer_no_read_only ==
    {"invoice_number", "is_active", "status", "last_checker", "approved_at", "number"}

ProformaInvoiceSerializer_writable == {"invoice_number", "is_active"}

\* ProformaInvoice.generate_number, with year = timezone.now().year
ProformaInvoice_generate_number(table, year) == generate_number(table, "PI", year)

\* ProformaInvoice.submit / approve / reject_to_rework, the model's transition helpers
ProformaInvoice_submit(row, t) ==
    [row EXCEPT !.status = "PENDING_APPROVAL", !.submitted_at = t]

ProformaInvoice_approve(row, checker_user, t) ==
    [row EXCEPT !.status = "APPROVED", !.approved_at = t, !.last_checker = checker_user]

ProformaInvoice_reject_to_rework(row, checker_user, t) ==
    [row EXCEPT !.status = "REWORK", !.reworked_at = t, !.last_checker = checker_user]

\* ProformaInvoiceLineItem.save: store the row with its amount, then
\* self.invoice.recalc_total(commit=True) on the row's parent.
ProformaInvoiceLineItem_save(d, item_id, item) ==
    LET items == LineItem_store(d.ProformaInvoiceLineItem, item_id, item) IN
    [d EXCEPT !.ProformaInvoiceLineItem = items,
              !.ProformaInvoice[item.invoice].total_amount_usd =
                    recalc_total(items, item.invoice)]

\* An edit rule that lets a checker edit while PENDING_APPROVAL too, to test the
\* properties against.
can_edit_while_pending(user, invoice) ==
    \/ _is_admin(user)
    \/ _is_maker(user) /\ invoice.status \in {"DRAFT", "REWORK"}
    \/ _is_checker(user) /\ invoice.status \in {"REWORK", "PENDING_APPROVAL"}

\* ProformaInvoiceViewSet._can_edit, and the same rule inlined in update
ProformaInvoiceViewSet_can_edit(user, invoice) ==
    \/ _is_admin(user)
    \/ _is_maker(user) /\ invoice.status \in {"DRAFT", "REWORK"}
    \/ _is_checker(user) /\ invoice.status = "REWORK"

\* The row serializer.save(maker=user, status=DRAFT) inserts, under the number
\* ProformaInvoice.save has generated.
NewProformaInvoice(number, year, user) ==
    [number |-> number, created_at |-> year,
     invoice_number |-> "", status |-> "DRAFT", total_amount_usd |-> 0,
     maker |-> user, last_checker |-> None, submitted_at |-> NullTime,
     approved_at |-> NullTime, reworked_at |-> NullTime,
     is_active |-> TRUE, deactivated_at |-> NullTime]

\* CreateModelMixin.create calling ProformaInvoiceViewSet.perform_create: the
\* Response perform_create returns to refuse is dropped by create(), which
\* answers 201 with the validated data.
ProformaInvoiceViewSet_create(d, user, body) ==
    IF ~(_is_maker(user) \/ _is_admin(user))
    THEN Response(d, HTTP_201_CREATED, "")
    ELSE Response(
        [d EXCEPT !.ProformaInvoice = Append(@, ModelSerializer_update(
            NewProformaInvoice(
                ProformaInvoice_generate_number(d.ProformaInvoice, d.year), d.year, user),
            validated_data(body, ProformaInvoiceSerializer_writable)))],
        HTTP_201_CREATED, "")

ProformaInvoiceViewSet_update(d, user, pk, body) ==
    IF ~get_object(d.ProformaInvoice, pk) THEN NotFound(d)
    ELSE IF ~ProformaInvoiceViewSet_can_edit(user, d.ProformaInvoice[pk])
    THEN Response(d, HTTP_403_FORBIDDEN, "Not allowed to edit in current status.")
    ELSE Response(
        [d EXCEPT !.ProformaInvoice[pk] = ModelSerializer_update(@,
            validated_data(body, ProformaInvoiceSerializer_writable))],
        HTTP_200_OK, "")

ProformaInvoiceViewSet_destroy(d, user, pk) ==
    Response(d, HTTP_405_METHOD_NOT_ALLOWED, "Method DELETE not allowed. Use deactivate.")

ProformaInvoiceViewSet_deactivate(d, user, pk) ==
    IF ~get_object(d.ProformaInvoice, pk) THEN NotFound(d)
    ELSE IF _is_admin(user) \/ (_is_maker(user) /\ d.ProformaInvoice[pk].status = "DRAFT")
    THEN Response(
        [d EXCEPT !.ProformaInvoice[pk] = BaseModel_deactivate(@, timezone_now(d)),
                  !.ProformaInvoiceAuditTrail =
                        AuditTrail_create(@, pk, "DEACTIVATED", user, "", timezone_now(d)),
                  !.now = timezone_now(d)],
        HTTP_200_OK, "")
    ELSE Response(d, HTTP_403_FORBIDDEN, "Not allowed to deactivate.")

ProformaInvoiceViewSet_submit(d, user, pk) ==
    IF ~get_object(d.ProformaInvoice, pk) THEN NotFound(d)
    ELSE IF ~(_is_maker(user) \/ _is_admin(user))
    THEN Response(d, HTTP_403_FORBIDDEN, "Not allowed to submit.")
    ELSE IF d.ProformaInvoice[pk].status \notin {"DRAFT", "REWORK"}
    THEN Response(d, HTTP_400_BAD_REQUEST, "Only Draft/Rework can be submitted.")
    ELSE Response(
        [d EXCEPT !.ProformaInvoice[pk] = ProformaInvoice_submit(@, timezone_now(d)),
                  !.ProformaInvoiceAuditTrail =
                        AuditTrail_create(@, pk, "SUBMITTED", user, "", timezone_now(d)),
                  !.now = timezone_now(d)],
        HTTP_200_OK, "")

ProformaInvoiceViewSet_approve(d, user, pk) ==
    IF ~get_object(d.ProformaInvoice, pk) THEN NotFound(d)
    ELSE IF ~(_is_checker(user) \/ _is_admin(user))
    THEN Response(d, HTTP_403_FORBIDDEN, "Not allowed to approve.")
    ELSE IF d.ProformaInvoice[pk].status \notin {"PENDING_APPROVAL", "REWORK"}
    THEN Response(d, HTTP_400_BAD_REQUEST, "Only Pending Approval/Rework can be approved.")
    ELSE Response(
        [d EXCEPT !.ProformaInvoice[pk] = ProformaInvoice_approve(@, user, timezone_now(d)),
                  !.ProformaInvoiceAuditTrail =
                        AuditTrail_create(@, pk, "APPROVED", user, "", timezone_now(d)),
                  !.now = timezone_now(d)],
        HTTP_200_OK, "")

\* Reject moves the invoice to REWORK and logs REJECTED with the optional notes.
ProformaInvoiceViewSet_reject(d, user, pk, notes) ==
    IF ~get_object(d.ProformaInvoice, pk) THEN NotFound(d)
    ELSE IF ~(_is_checker(user) \/ _is_admin(user))
    THEN Response(d, HTTP_403_FORBIDDEN, "Not allowed to reject.")
    ELSE IF d.ProformaInvoice[pk].status # "PENDING_APPROVAL"
    THEN Response(d, HTTP_400_BAD_REQUEST, "Only Pending Approval can be rejected.")
    ELSE Response(
        [d EXCEPT !.ProformaInvoice[pk] =
                        ProformaInvoice_reject_to_rework(@, user, timezone_now(d)),
                  !.ProformaInvoiceAuditTrail =
                        AuditTrail_create(@, pk, "REJECTED", user, notes, timezone_now(d)),
                  !.now = timezone_now(d)],
        HTTP_200_OK, "")

ProformaInvoiceViewSet_audit(d, user, pk) ==
    IF ~get_object(d.ProformaInvoice, pk) THEN NotFound(d)
    ELSE Response(d, HTTP_200_OK, "")

\* The final PDF: status is checked before the role.
ProformaInvoiceViewSet_pdf(d, user, pk) ==
    IF ~get_object(d.ProformaInvoice, pk) THEN NotFound(d)
    ELSE IF d.ProformaInvoice[pk].status # "APPROVED"
    THEN Response(d, HTTP_400_BAD_REQUEST, "PDF available only for Approved invoices.")
    ELSE IF ~(_is_maker(user) \/ _is_checker(user) \/ _is_admin(user))
    THEN Response(d, HTTP_403_FORBIDDEN, "Not allowed to download PDF.")
    ELSE Response(
        [d EXCEPT !.ProformaInvoiceAuditTrail =
                        AuditTrail_create(@, pk, "PDF_DOWNLOADED", user, "", timezone_now(d)),
                  !.now = timezone_now(d)],
        HTTP_200_OK, "application/pdf")

\* POST line-items
ProformaInvoiceViewSet_line_items(d, user, pk, body) ==
    IF ~get_object(d.ProformaInvoice, pk) THEN NotFound(d)
    ELSE IF ~ProformaInvoiceViewSet_can_edit(user, d.ProformaInvoice[pk])
    THEN Response(d, HTTP_403_FORBIDDEN, "Not allowed to add line items.")
    ELSE Response(
        [ProformaInvoiceLineItem_save(d, 0, ModelSerializer_update(NewLineItem(pk),
                validated_data(with_invoice(body, pk), LineItemSerializer_writable)))
            EXCEPT !.ProformaInvoiceAuditTrail =
                        AuditTrail_create(@, pk, "EDITED", user, "Line item added",
                                          timezone_now(d)),
                   !.now = timezone_now(d)],
        HTTP_201_CREATED, "")

\* PATCH line-items/<item_id>
ProformaInvoiceViewSet_update_line_item(d, user, pk, item_id, body) ==
    LET data == validated_data(body, LineItemSerializer_writable) IN
    IF ~get_object(d.ProformaInvoice, pk) THEN NotFound(d)
    ELSE IF ~ProformaInvoiceViewSet_can_edit(user, d.ProformaInvoice[pk])
    THEN Response(d, HTTP_403_FORBIDDEN, "Not allowed to edit line items.")
    ELSE IF ~line_items_get(d.ProformaInvoiceLineItem, pk, item_id)
    THEN Response(d, HTTP_404_NOT_FOUND, "Item not found.")
    ELSE IF ~LineItemSerializer_is_valid(d.ProformaInvoice, data)
    THEN Response(d, HTTP_400_BAD_REQUEST, "Invalid pk - object does not exist.")
    ELSE Response(
        [ProformaInvoiceLineItem_save(d, item_id,
                ModelSerializer_update(d.ProformaInvoiceLineItem[item_id], data))
            EXCEPT !.ProformaInvoiceAuditTrail =
                        AuditTrail_create(@, pk, "EDITED", user, "Line item updated",
                                          timezone_now(d)),
                   !.now = timezone_now(d)],
        HTTP_200_OK, "")

\* POST line-items/<item_id>/deactivate
ProformaInvoiceViewSet_deactivate_line_item(d, user, pk, item_id) ==
    IF ~get_object(d.ProformaInvoice, pk) THEN NotFound(d)
    ELSE IF ~ProformaInvoiceViewSet_can_edit(user, d.ProformaInvoice[pk])
    THEN Response(d, HTTP_403_FORBIDDEN, "Not allowed to delete line items.")
    ELSE IF ~line_items_get(d.ProformaInvoiceLineItem, pk, item_id)
    THEN Response(d, HTTP_404_NOT_FOUND, "Item not found.")
    ELSE Response(
        [ProformaInvoiceLineItem_save(d, item_id,
                BaseModel_deactivate(d.ProformaInvoiceLineItem[item_id], timezone_now(d)))
            EXCEPT !.ProformaInvoiceAuditTrail =
                        AuditTrail_create(@, pk, "EDITED", user, "Line item deleted",
                                          timezone_now(d)),
                   !.now = timezone_now(d)],
        HTTP_200_OK, "")

-----------------------------------------------------------------------------
(* Commercial Invoice: models.py CommercialInvoice, api.py CommercialInvoiceViewSet *)

\* CommercialInvoiceSerializer: fields = "__all__" minus read_only_fields.
CommercialInvoiceSerializer_writable == {"invoice_number", "is_active", "packing_list"}

\* CommercialInvoice.generate_number
CommercialInvoice_generate_number(table, year) == generate_number(table, "CI", year)

\* CommercialInvoice.submit / approve / reject / disable: each assigns only
\* from the statuses it names and is otherwise a no-op.
CommercialInvoice_submit(row, t) ==
    IF row.status \in {"DRAFT", "REJECTED"}
    THEN [row EXCEPT !.status = "PENDING_APPROVAL", !.submitted_at = t]
    ELSE row

CommercialInvoice_approve(row, checker_user, t) ==
    IF row.status \in {"PENDING_APPROVAL", "REJECTED"}
    THEN [row EXCEPT !.status = "APPROVED", !.approved_at = t, !.last_checker = checker_user]
    ELSE row

CommercialInvoice_reject(row, checker_user, t) ==
    IF row.status = "PENDING_APPROVAL"
    THEN [row EXCEPT !.status = "REJECTED", !.rejected_at = t, !.last_checker = checker_user]
    ELSE row

\* A disable that assigns the status alone, to test the properties against.
disable_without_timestamp(row, t) ==
    IF row.status = "APPROVED" THEN [row EXCEPT !.status = "DISABLED"] ELSE row

CommercialInvoice_disable(row, t) ==
    IF row.status = "APPROVED"
    THEN [row EXCEPT !.status = "DISABLED", !.disabled_at = t]
    ELSE row

\* CommercialInvoice.recalc_total: amount mirrors the total only while it is 0.
CommercialInvoice_recalc_total(row, total_usd) ==
    [row EXCEPT !.total_amount_usd = total_usd,
                !.amount = IF row.amount = 0 THEN total_usd ELSE row.amount]

\* CommercialInvoiceLineItem.save
CommercialInvoiceLineItem_save(d, item_id, item) ==
    LET items == LineItem_store(d.CommercialInvoiceLineItem, item_id, item) IN
    [d EXCEPT !.CommercialInvoiceLineItem = items,
              !.CommercialInvoice[item.invoice] =
                    CommercialInvoice_recalc_total(@, recalc_total(items, item.invoice))]

\* str.strip(), on the notes the requests of the model carry: leading and
\* trailing whitespace is removed.
strip(notes) ==
    CASE notes = " " -> ""
      [] notes = " fix HS code " -> "fix HS code"
      [] OTHER -> notes

\* CommercialInvoiceViewSet._can_edit
CommercialInvoiceViewSet_can_edit(user, invoice) ==
    \/ _is_admin(user)
    \/ _is_maker(user) /\ invoice.status \in {"DRAFT", "REJECTED"}
    \/ _is_checker(user) /\ invoice.status = "REJECTED"

\* A CommercialInvoice row as first saved with maker=user, status=DRAFT.
NewCommercialInvoice(table, year, user, packing_list) ==
    [number |-> CommercialInvoice_generate_number(table, year), created_at |-> year,
     invoice_number |-> "", status |-> "DRAFT", amount |-> 0, total_amount_usd |-> 0,
     maker |-> user, last_checker |-> None, packing_list |-> packing_list,
     submitted_at |-> NullTime, approved_at |-> NullTime, rejected_at |-> NullTime,
     disabled_at |-> NullTime, is_active |-> TRUE, deactivated_at |-> NullTime]

\* CreateModelMixin.create calling CommercialInvoiceViewSet.perform_create
CommercialInvoiceViewSet_create(d, user, body) ==
    IF ~(_is_maker(user) \/ _is_admin(user))
    THEN Response(d, HTTP_201_CREATED, "")
    ELSE Response(
        [d EXCEPT !.CommercialInvoice = Append(@, ModelSerializer_update(
                        NewCommercialInvoice(d.CommercialInvoice, d.year, user, None),
                        validated_data(body, CommercialInvoiceSerializer_writable))),
                  !.CommercialInvoiceAuditTrail =
                        AuditTrail_create(@, Len(d.CommercialInvoice) + 1, "CREATED", user,
                                          "", timezone_now(d)),
                  !.now = timezone_now(d)],
        HTTP_201_CREATED, "")

\* An update that lets a checker edit while DRAFT as it does while REJECTED, to
\* test the properties against.
update_checker_as_maker(d, user, pk, body) ==
    IF ~get_object(d.CommercialInvoice, pk) THEN NotFound(d)
    ELSE IF d.CommercialInvoice[pk].status \in {"APPROVED", "DISABLED"}
    THEN Response(d, HTTP_403_FORBIDDEN, "Approved/Disabled invoices are read-only.")
    ELSE IF \/ _is_admin(user)
            \/ (_is_maker(user) \/ _is_checker(user))
                    /\ d.CommercialInvoice[pk].status \in {"DRAFT", "REJECTED"}
    THEN Response(
        [d EXCEPT !.CommercialInvoice[pk] = ModelSerializer_update(@,
                        validated_data(body, CommercialInvoiceSerializer_writable)),
                  !.CommercialInvoiceAuditTrail =
                        AuditTrail_create(@, pk, "EDITED", user, "", timezone_now(d)),
                  !.now = timezone_now(d)],
        HTTP_200_OK, "")
    ELSE Response(d, HTTP_403_FORBIDDEN, "Not allowed to edit in current status.")

\* The three permitted branches of update do the same: super().update(), then
\* an EDITED audit row.
CommercialInvoiceViewSet_update(d, user, pk, body) ==
    IF ~get_object(d.CommercialInvoice, pk) THEN NotFound(d)
    ELSE IF d.CommercialInvoice[pk].status \in {"APPROVED", "DISABLED"}
    THEN Response(d, HTTP_403_FORBIDDEN, "Approved/Disabled invoices are read-only.")
    ELSE IF \/ _is_admin(user)
            \/ _is_maker(user) /\ d.CommercialInvoice[pk].status \in {"DRAFT", "REJECTED"}
            \/ _is_checker(user) /\ d.CommercialInvoice[pk].status = "REJECTED"
    THEN Response(
        [d EXCEPT !.CommercialInvoice[pk] = ModelSerializer_update(@,
                        validated_data(body, CommercialInvoiceSerializer_writable)),
                  !.CommercialInvoiceAuditTrail =
                        AuditTrail_create(@, pk, "EDITED", user, "", timezone_now(d)),
                  !.now = timezone_now(d)],
        HTTP_200_OK, "")
    ELSE Response(d, HTTP_403_FORBIDDEN, "Not allowed to edit in current status.")

CommercialInvoiceViewSet_destroy(d, user, pk) ==
    Response(d, HTTP_405_METHOD_NOT_ALLOWED, "Method DELETE not allowed. Use deactivate.")

\* A deactivate that does not ask for the status, to test the properties
\* against.
deactivate_disabled_too(d, user, pk) ==
    IF ~get_object(d.CommercialInvoice, pk) THEN NotFound(d)
    ELSE IF ~(_is_checker(user) \/ _is_admin(user))
    THEN Response(d, HTTP_403_FORBIDDEN, "Not allowed to deactivate.")
    ELSE Response(
        [d EXCEPT !.CommercialInvoice[pk] = BaseModel_deactivate(@, timezone_now(d)),
                  !.CommercialInvoiceAuditTrail =
                        AuditTrail_create(@, pk, "DISABLED", user, "Record deactivated",
                                          timezone_now(d)),
                  !.now = timezone_now(d)],
        HTTP_200_OK, "")

CommercialInvoiceViewSet_deactivate(d, user, pk) ==
    IF ~get_object(d.CommercialInvoice, pk) THEN NotFound(d)
    ELSE IF d.CommercialInvoice[pk].status = "DISABLED"
    THEN Response(d, HTTP_400_BAD_REQUEST, "Disabled invoices cannot be deactivated.")
    ELSE IF ~(_is_checker(user) \/ _is_admin(user))
    THEN Response(d, HTTP_403_FORBIDDEN, "Not allowed to deactivate.")
    ELSE Response(
        [d EXCEPT !.CommercialInvoice[pk] = BaseModel_deactivate(@, timezone_now(d)),
                  !.CommercialInvoiceAuditTrail =
                        AuditTrail_create(@, pk, "DISABLED", user, "Record deactivated",
                                          timezone_now(d)),
                  !.now = timezone_now(d)],
        HTTP_200_OK, "")

CommercialInvoiceViewSet_submit(d, user, pk) ==
    IF ~get_object(d.CommercialInvoice, pk) THEN NotFound(d)
    ELSE IF ~(_is_maker(user) \/ _is_admin(user))
    THEN Response(d, HTTP_403_FORBIDDEN, "Not allowed to submit.")
    ELSE IF d.CommercialInvoice[pk].status \notin {"DRAFT", "REJECTED"}
    THEN Response(d, HTTP_400_BAD_REQUEST, "Only Draft/Rejected can be submitted.")
    ELSE Response(
        [d EXCEPT !.CommercialInvoice[pk] = CommercialInvoice_submit(@, timezone_now(d)),
                  !.CommercialInvoiceAuditTrail =
                        AuditTrail_create(@, pk, "SUBMITTED", user, "", timezone_now(d)),
                  !.now = timezone_now(d)],
        HTTP_200_OK, "")

CommercialInvoiceViewSet_approve(d, user, pk) ==
    IF ~get_object(d.CommercialInvoice, pk) THEN NotFound(d)
    ELSE IF ~(_is_checker(user) \/ _is_admin(user))
    THEN Response(d, HTTP_403_FORBIDDEN, "Not allowed to approve.")
    ELSE IF d.CommercialInvoice[pk].status \notin {"PENDING_APPROVAL", "REJECTED"}
    THEN Response(d, HTTP_400_BAD_REQUEST, "Only Pending Approval/Rejected can be approved.")
    ELSE Response(
        [d EXCEPT !.CommercialInvoice[pk] =
                        CommercialInvoice_approve(@, user, timezone_now(d)),
                  !.CommercialInvoiceAuditTrail =
                        AuditTrail_create(@, pk, "APPROVED", user, "", timezone_now(d)),
                  !.now = timezone_now(d)],
        HTTP_200_OK, "")

CommercialInvoiceViewSet_reject(d, user, pk, notes) ==
    IF ~get_object(d.CommercialInvoice, pk) THEN NotFound(d)
    ELSE IF ~(_is_checker(user) \/ _is_admin(user))
    THEN Response(d, HTTP_403_FORBIDDEN, "Not allowed to reject.")
    ELSE IF d.CommercialInvoice[pk].status # "PENDING_APPROVAL"
    THEN Response(d, HTTP_400_BAD_REQUEST, "Only Pending Approval can be rejected.")
    ELSE IF strip(notes) = ""
    THEN Response(d, HTTP_400_BAD_REQUEST, "Rejection requires comments for rework.")
    ELSE Response(
        [d EXCEPT !.CommercialInvoice[pk] =
                        CommercialInvoice_reject(@, user, timezone_now(d)),
                  !.CommercialInvoiceAuditTrail =
                        AuditTrail_create(@, pk, "REJECTED", user, strip(notes),
                                          timezone_now(d)),
                  !.now = timezone_now(d)],
        HTTP_200_OK, "")

CommercialInvoiceViewSet_disable(d, user, pk) ==
    IF ~get_object(d.CommercialInvoice, pk) THEN NotFound(d)
    ELSE IF ~(_is_checker(user) \/ _is_admin(user))
    THEN Response(d, HTTP_403_FORBIDDEN, "Not allowed to disable.")
    ELSE IF d.CommercialInvoice[pk].status # "APPROVED"
    THEN Response(d, HTTP_400_BAD_REQUEST, "Only Approved invoices can be disabled.")
    ELSE Response(
        [d EXCEPT !.CommercialInvoice[pk] = CommercialInvoice_disable(@, timezone_now(d)),
                  !.CommercialInvoiceAuditTrail =
                        AuditTrail_create(@, pk, "DISABLED", user, "", timezone_now(d)),
                  !.now = timezone_now(d)],
        HTTP_200_OK, "")

\* The draft PDF: refused only when APPROVED, and given to an admin or to the
\* invoice's own maker.
CommercialInvoiceViewSet_pdf_draft(d, user, pk) ==
    IF ~get_object(d.CommercialInvoice, pk) THEN NotFound(d)
    ELSE IF d.CommercialInvoice[pk].status = "APPROVED"
    THEN Response(d, HTTP_400_BAD_REQUEST, "Draft PDF available only before approval.")
    ELSE IF ~(_is_admin(user) \/ (d.CommercialInvoice[pk].maker = user /\ _is_maker(user)))
    THEN Response(d, HTTP_403_FORBIDDEN, "Not allowed to download Draft PDF.")
    ELSE Response(
        [d EXCEPT !.CommercialInvoiceAuditTrail =
                        AuditTrail_create(@, pk, "PDF_DRAFT_DOWNLOADED", user, "",
                                          timezone_now(d)),
                  !.now = timezone_now(d)],
        HTTP_200_OK, "application/pdf")

CommercialInvoiceViewSet_pdf(d, user, pk) ==
    IF ~get_object(d.CommercialInvoice, pk) THEN NotFound(d)
    ELSE IF d.CommercialInvoice[pk].status # "APPROVED"
    THEN Response(d, HTTP_400_BAD_REQUEST, "PDF available only for Approved invoices.")
    ELSE IF ~(_is_maker(user) \/ _is_checker(user) \/ _is_admin(user))
    THEN Response(d, HTTP_403_FORBIDDEN, "Not allowed to download PDF.")
    ELSE Response(
        [d EXCEPT !.CommercialInvoiceAuditTrail =
                        AuditTrail_create(@, pk, "PDF_DOWNLOADED", user, "", timezone_now(d)),
                  !.now = timezone_now(d)],
        HTTP_200_OK, "application/pdf")

CommercialInvoiceViewSet_audit(d, user, pk) ==
    IF ~get_object(d.CommercialInvoice, pk) THEN NotFound(d)
    ELSE Response(d, HTTP_200_OK, "")

CommercialInvoiceViewSet_line_items(d, user, pk, body) ==
    IF ~get_object(d.CommercialInvoice, pk) THEN NotFound(d)
    ELSE IF ~CommercialInvoiceViewSet_can_edit(user, d.CommercialInvoice[pk])
    THEN Response(d, HTTP_403_FORBIDDEN, "Not allowed to add line items.")
    ELSE Response(
        [CommercialInvoiceLineItem_save(d, 0, ModelSerializer_update(NewLineItem(pk),
                validated_data(with_invoice(body, pk), LineItemSerializer_writable)))
            EXCEPT !.CommercialInvoiceAuditTrail =
                        AuditTrail_create(@, pk, "EDITED", user, "Line item added",
                                          timezone_now(d)),
                   !.now = timezone_now(d)],
        HTTP_201_CREATED, "")

CommercialInvoiceViewSet_update_line_item(d, user, pk, item_id, body) ==
    LET data == validated_data(body, LineItemSerializer_writable) IN
    IF ~get_object(d.CommercialInvoice, pk) THEN NotFound(d)
    ELSE IF ~CommercialInvoiceViewSet_can_edit(user, d.CommercialInvoice[pk])
    THEN Response(d, HTTP_403_FORBIDDEN, "Not allowed to edit line items.")
    ELSE IF ~line_items_get(d.CommercialInvoiceLineItem, pk, item_id)
    THEN Response(d, HTTP_404_NOT_FOUND, "Item not found.")
    ELSE IF ~LineItemSerializer_is_valid(d.CommercialInvoice, data)
    THEN Response(d, HTTP_400_BAD_REQUEST, "Invalid pk - object does not exist.")
    ELSE Response(
        [CommercialInvoiceLineItem_save(d, item_id,
                ModelSerializer_update(d.CommercialInvoiceLineItem[item_id], data))
            EXCEPT !.CommercialInvoiceAuditTrail =
                        AuditTrail_create(@, pk, "EDITED", user, "Line item updated",
                                          timezone_now(d)),
                   !.now = timezone_now(d)],
        HTTP_200_OK, "")

CommercialInvoiceViewSet_deactivate_line_item(d, user, pk, item_id) ==
    IF ~get_object(d.CommercialInvoice, pk) THEN NotFound(d)
    ELSE IF ~CommercialInvoiceViewSet_can_edit(user, d.CommercialInvoice[pk])
    THEN Response(d, HTTP_403_FORBIDDEN, "Not allowed to delete line items.")
    ELSE IF ~line_items_get(d.CommercialInvoiceLineItem, pk, item_id)
    THEN Response(d, HTTP_404_NOT_FOUND, "Item not found.")
    ELSE Response(
        [CommercialInvoiceLineItem_save(d, item_id,
                BaseModel_deactivate(d.CommercialInvoiceLineItem[item_id], timezone_now(d)))
            EXCEPT !.CommercialInvoiceAuditTrail =
                        AuditTrail_create(@, pk, "EDITED", user, "Line item deleted",
                                          timezone_now(d)),
                   !.now = timezone_now(d)],
        HTTP_200_OK, "")

-----------------------------------------------------------------------------
(* Packing List: models.py PackingList, serializers.py PackingListSerializer, *)
(* api.py PackingListViewSet                                                  *)

\* PackingList.STATUS_CHOICES
PackingList_STATUS_CHOICES == {"DRAFT", "PENDING_APPROVAL", "APPROVED", "REWORK"}

\* A serializer that lets the number be written, to test the properties against.
PackingListSerializer_number_writable ==
    {"invoice_number", "status", "last_checker", "submitted_at", "approved_at",
     "reworked_at", "proforma_invoice", "containers", "number"}

\* PackingListSerializer: Meta.fields with read_only_fields = ("number",); maker
\* and id are declared read-only, is_active is not among the fields.
PackingListSerializer_writable ==
    {"invoice_number", "status", "last_checker", "submitted_at", "approved_at",
     "reworked_at", "proforma_invoice", "containers"}

\* serializer.is_valid: status is a ChoiceField, and the nested containers are
\* required unless the update is partial.
PackingListSerializer_is_valid(data, partial) ==
    /\ "status" \in DOMAIN data => data.status \in PackingList_STATUS_CHOICES
    /\ ~partial => "containers" \in DOMAIN data

\* PackingList.generate_number
PackingList_generate_number(table, year) == generate_number(table, "PL", year)

\* QuerySet.delete(): the rows leave the table; their ids are not given again,
\* so a deleted row keeps its index and is marked.
QuerySet_delete(table, ids) ==
    [i \in DOMAIN table |->
        IF i \in ids THEN [table[i] EXCEPT !.deleted = TRUE] ELSE table[i]]

\* instance.containers.all() / container.items.all(), as sets of ids
related(table, fk, id) ==
    {i \in DOMAIN table : ~table[i].deleted /\ table[i][fk] = id}

\* PackingListContainer.objects.create(packing_list=..., **container_data)
NewContainer(packing_list, container_data) ==
    [packing_list |-> packing_list,
     container_reference |-> container_data.container_reference,
     is_active |-> TRUE, deleted |-> FALSE]

\* PackingListContainerItem.objects.create(container=..., **item_data)
NewContainerItem(container, item_data) ==
    [container |-> container, item_code |-> item_data.item_code, uom |-> item_data.uom,
     quantity |-> item_data.quantity,
     description_of_goods |-> item_data.description_of_goods,
     is_active |-> TRUE, deleted |-> FALSE]

\* The ids a payload names: item_data.get('id') / container_data.get('id')
processed_ids(payload) == {payload[i].id : i \in DOMAIN payload} \ {0}

\* PackingListSerializer.update, the loop over one container's items_data
RECURSIVE update_items(_, _, _, _)
update_items(items, container, existing_items, items_data) ==
    IF items_data = <<>> THEN items
    ELSE LET item_data == Head(items_data) IN
         update_items(
            IF item_data.id # 0
            THEN IF item_data.id \in existing_items
                 THEN [items EXCEPT ![item_data.id] = ModelSerializer_update(@, item_data)]
                 ELSE items
            ELSE Append(items, NewContainerItem(container, item_data)),
            container, existing_items, Tail(items_data))

\* One container_data of the payload: update or create the container, then
\* its items, then delete the items of it the payload left out.
update_container(t, pk, existing_containers, container_data) ==
    LET container_id == container_data.id
        container == IF container_id # 0
                     THEN IF container_id \in existing_containers THEN container_id ELSE 0
                     ELSE Len(t.containers) + 1
        containers == IF container_id # 0
                      THEN IF container_id \in existing_containers
                           THEN [t.containers EXCEPT ![container_id] =
                                    ModelSerializer_update(@, container_data)]
                           ELSE t.containers
                      ELSE Append(t.containers, NewContainer(pk, container_data))
        existing_items == related(t.items, "container", container)
    IN  IF container = 0 THEN t
        ELSE [containers |-> containers,
              items |-> QuerySet_delete(
                    update_items(t.items, container, existing_items, container_data.items),
                    existing_items \ processed_ids(container_data.items))]

RECURSIVE update_containers(_, _, _, _)
update_containers(t, pk, existing_containers, containers_data) ==
    IF containers_data = <<>> THEN t
    ELSE update_containers(
            update_container(t, pk, existing_containers, Head(containers_data)),
            pk, existing_containers, Tail(containers_data))

\* PackingListSerializer.create: the header row, then its containers and items.
PackingListSerializer_create(d, row, containers_data) ==
    LET t == update_containers(
                [containers |-> d.PackingListContainer, items |-> d.PackingListContainerItem],
                Len(d.PackingList) + 1, {},
                [i \in DOMAIN containers_data |-> [containers_data[i] EXCEPT !.id = 0]])
    IN  [d EXCEPT !.PackingList = Append(@, row),
                  !.PackingListContainer = t.containers,
                  !.PackingListContainerItem = t.items]

\* PackingListSerializer.update: containers default to [] when the payload has
\* none; the header is saved, the payload's containers are processed, and the
\* stored containers the payload did not name are deleted, their items with
\* them (on_delete=CASCADE).
PackingListSerializer_update(d, pk, data) ==
    LET containers_data == IF "containers" \in DOMAIN data THEN data.containers ELSE <<>>
        existing_containers == related(d.PackingListContainer, "packing_list", pk)
        t == update_containers(
                [containers |-> d.PackingListContainer, items |-> d.PackingListContainerItem],
                pk, existing_containers, containers_data)
        container_ids_to_delete == existing_containers \ processed_ids(containers_data)
    IN  [d EXCEPT !.PackingList[pk] = ModelSerializer_update(@, data),
                  !.PackingListContainer = QuerySet_delete(t.containers, container_ids_to_delete),
                  !.PackingListContainerItem = QuerySet_delete(t.items,
                        {i \in DOMAIN t.items : t.items[i].container \in container_ids_to_delete})]

\* PackingListViewSet.create: no role is asked for; save(maker=request.user,
\* status=DRAFT) overrides those two fields, the other validated fields are
\* stored; any exception becomes a 400.
PackingListViewSet_create(d, user, body) ==
    LET data == validated_data(body, PackingListSerializer_writable) IN
    IF ~PackingListSerializer_is_valid(data, FALSE)
    THEN Response(d, HTTP_400_BAD_REQUEST, "Invalid input.")
    ELSE Response(
        PackingListSerializer_create(d,
            [ModelSerializer_update(
                [number |-> PackingList_generate_number(d.PackingList, d.year),
                 created_at |-> d.year,
                 invoice_number |-> "", status |-> "DRAFT", maker |-> user,
                 last_checker |-> None, submitted_at |-> NullTime,
                 approved_at |-> NullTime, reworked_at |-> NullTime,
                 proforma_invoice |-> None, is_active |-> TRUE,
                 deactivated_at |-> NullTime],
                data) EXCEPT !.maker = user, !.status = "DRAFT"],
            data.containers),
        HTTP_201_CREATED, "")

\* PUT (partial = FALSE) and PATCH (partial = TRUE)
PackingListViewSet_update(d, user, pk, body, partial) ==
    LET data == validated_data(body, PackingListSerializer_writable) IN
    IF ~get_object(d.PackingList, pk) THEN NotFound(d)
    ELSE IF d.PackingList[pk].status = "APPROVED"
    THEN Response(d, HTTP_403_FORBIDDEN, "Approved packing lists cannot be edited.")
    ELSE IF ~(\/ _is_admin(user)
              \/ _is_maker(user) /\ d.PackingList[pk].status \in {"DRAFT", "REWORK"}
              \/ _is_checker(user) /\ d.PackingList[pk].status = "REWORK")
    THEN Response(d, HTTP_403_FORBIDDEN, "Not allowed to edit in current status.")
    ELSE IF ~PackingListSerializer_is_valid(data, partial)
    THEN Response(d, HTTP_400_BAD_REQUEST, "Invalid input.")
    ELSE Response(PackingListSerializer_update(d, pk, data), HTTP_200_OK, "")

PackingListViewSet_destroy(d, user, pk) ==
    Response(d, HTTP_405_METHOD_NOT_ALLOWED, "Method DELETE not allowed. Use deactivate.")

\* BaseSoftDeleteViewSet.deactivate, which PackingListViewSet inherits
PackingListViewSet_deactivate(d, user, pk) ==
    IF ~get_object(d.PackingList, pk) THEN NotFound(d)
    ELSE Response(
        [d EXCEPT !.PackingList[pk] = BaseModel_deactivate(@, timezone_now(d)),
                  !.now = timezone_now(d)],
        HTTP_200_OK, "")

PackingListViewSet_submit(d, user, pk) ==
    IF ~get_object(d.PackingList, pk) THEN NotFound(d)
    ELSE IF ~(_is_maker(user) \/ _is_admin(user))
    THEN Response(d, HTTP_403_FORBIDDEN, "Not allowed to submit.")
    ELSE IF d.PackingList[pk].status \notin {"DRAFT", "REWORK"}
    THEN Response(d, HTTP_400_BAD_REQUEST, "Only Draft/Rework can be submitted.")
    ELSE Response(
        [d EXCEPT !.PackingList[pk].status = "PENDING_APPROVAL",
                  !.PackingList[pk].submitted_at = timezone_now(d),
                  !.now = timezone_now(d)],
        HTTP_200_OK, "")

\* An approve that does not look at the status, to test the properties against.
approve_any_status(d, user, pk) ==
    IF ~get_object(d.PackingList, pk) THEN NotFound(d)
    ELSE IF ~(_is_checker(user) \/ _is_admin(user))
    THEN Response(d, HTTP_403_FORBIDDEN, "Not allowed to approve.")
    ELSE Response(
        [d EXCEPT !.PackingList[pk].status = "APPROVED",
                  !.PackingList[pk].approved_at = timezone_now(d),
                  !.PackingList[pk].last_checker = user,
                  !.now = timezone_now(d)],
        HTTP_200_OK, "")

PackingListViewSet_approve(d, user, pk) ==
    IF ~get_object(d.PackingList, pk) THEN NotFound(d)
    ELSE IF ~(_is_checker(user) \/ _is_admin(user))
    THEN Response(d, HTTP_403_FORBIDDEN, "Not allowed to approve.")
    ELSE IF d.PackingList[pk].status # "PENDING_APPROVAL"
    THEN Response(d, HTTP_400_BAD_REQUEST, "Only Pending Approval can be approved.")
    ELSE Response(
        [d EXCEPT !.PackingList[pk].status = "APPROVED",
                  !.PackingList[pk].approved_at = timezone_now(d),
                  !.PackingList[pk].last_checker = user,
                  !.now = timezone_now(d)],
        HTTP_200_OK, "")

PackingListViewSet_pdf(d, user, pk) ==
    IF ~get_object(d.PackingList, pk) THEN NotFound(d)
    ELSE IF d.PackingList[pk].status # "APPROVED"
    THEN Response(d, HTTP_400_BAD_REQUEST, "PDF available only for Approved packing lists.")
    ELSE IF ~(_is_maker(user) \/ _is_checker(user) \/ _is_admin(user))
    THEN Response(d, HTTP_403_FORBIDDEN, "Not allowed to download PDF.")
    ELSE Response(d, HTTP_200_OK, "application/pdf")

\* The notes are asked for before the status is looked at, and are not stripped.
PackingListViewSet_reject(d, user, pk, notes) ==
    IF ~get_object(d.PackingList, pk) THEN NotFound(d)
    ELSE IF ~(_is_checker(user) \/ _is_admin(user))
    THEN Response(d, HTTP_403_FORBIDDEN, "Not allowed to reject.")
    ELSE IF notes = ""
    THEN Response(d, HTTP_400_BAD_REQUEST, "Rejection requires comments for rework.")
    ELSE IF d.PackingList[pk].status # "PENDING_APPROVAL"
    THEN Response(d, HTTP_400_BAD_REQUEST, "Only Pending Approval can be rejected.")
    ELSE Response(
        [d EXCEPT !.PackingList[pk].status = "REWORK",
                  !.PackingList[pk].reworked_at = timezone_now(d),
                  !.PackingList[pk].last_checker = user,
                  !.now = timezone_now(d)],
        HTTP_200_OK, "")

\* PackingList has no attribute STATUS_PERMANENTLY_REJECTED: for an actor with
\* the role the assignment raises AttributeError before anything is saved.
PackingListViewSet_permanently_reject(d, user, pk) ==
    IF ~get_object(d.PackingList, pk) THEN NotFound(d)
    ELSE IF ~(_is_checker(user) \/ _is_admin(user))
    THEN Response(d, HTTP_403_FORBIDDEN, "Not allowed to permanently reject.")
    ELSE Response(d, HTTP_500_INTERNAL_SERVER_ERROR, "AttributeError")

-----------------------------------------------------------------------------
(* Aggregation of a Packing List and the Commercial Invoice made from it:  *)
(* api.py aggregate_from_packing_list, create_from_packing_list            *)

\* BankMaster rows a Commercial Invoice can point at.
BankMaster == {1}

\* The literal marker of a group fed by more than one container.
In_every_container == "In every container"

visited_inactive_too(d, pl) ==
    {i \in DOMAIN d.PackingListContainerItem :
        LET it == d.PackingListContainerItem[i] IN
        /\ ~it.deleted
        /\ it.container \in DOMAIN d.PackingListContainer
        /\ ~d.PackingListContainer[it.container].deleted
        /\ d.PackingListContainer[it.container].is_active
        /\ d.PackingListContainer[it.container].packing_list = pl}

\* The items the two loops visit: those active in the active
\* containers of the packing list.
visited(d, pl) ==
    {i \in DOMAIN d.PackingListContainerItem :
        LET it == d.PackingListContainerItem[i] IN
        /\ ~it.deleted /\ it.is_active
        /\ it.container \in DOMAIN d.PackingListContainer
        /\ ~d.PackingListContainer[it.container].deleted
        /\ d.PackingListContainer[it.container].is_active
        /\ d.PackingListContainer[it.container].packing_list = pl}

\* Neither queryset is ordered (no Meta.ordering, no order_by): the database
\* may hand the containers, and the items of a container, in any order.  An
\* order of the visit lists every visited item once, the items of a container
\* side by side.
Orders(d, pl) ==
    LET S == visited(d, pl)
        container(i) == d.PackingListContainerItem[i].container
    IN  {o \in [1 .. Cardinality(S) -> S] :
            /\ \A i, j \in DOMAIN o : o[i] = o[j] => i = j
            /\ \A i, j, k \in DOMAIN o :
                    (i < j /\ j < k /\ container(o[i]) = container(o[k]))
                        => container(o[j]) = container(o[i])}

\* key = (it.item_code or "", it.uom_id or 0)
group_key(it) == <<it.item_code, it.uom>>

\* One turn of the inner loop: open a group for a new key, or add the item's
\* quantity and container to the group of its key.  groups keeps the dict's
\* insertion order.
add_to_groups(groups, it) ==
    IF \E k \in DOMAIN groups : groups[k].key = group_key(it)
    THEN [k \in DOMAIN groups |->
            IF groups[k].key = group_key(it)
            THEN [groups[k] EXCEPT !.quantity = @ + it.quantity,
                                   !.container_ids = @ \cup {it.container}]
            ELSE groups[k]]
    ELSE Append(groups, [key |-> group_key(it), item_code |-> it.item_code,
                         description |-> it.description_of_goods,
                         quantity |-> it.quantity, unit_id |-> it.uom,
                         container_ids |-> {it.container}])

RECURSIVE aggregate(_, _, _)
aggregate(items, order, groups) ==
    IF order = <<>> THEN groups
    ELSE aggregate(items, Tail(order), add_to_groups(groups, items[Head(order)]))

aggregate_groups(d, pl, order) ==
    aggregate(d.PackingListContainerItem, order, <<>>)

group_description_always(g) ==
    IF ~(\E k \in DOMAIN g.description : g.description[k] = In_every_container)
    THEN Append(g.description, In_every_container)
    ELSE g.description

\* A description is the sequence of its phrases; the marker is appended when
\* more than one container fed the group and the description lacks it.
group_description(g) ==
    IF Cardinality(g.container_ids) > 1
       /\ ~(\E k \in DOMAIN g.description : g.description[k] = In_every_container)
    THEN Append(g.description, In_every_container)
    ELSE g.description

\* The line_items of the aggregation's payload, one per group.
line_items_payload(groups) ==
    [k \in DOMAIN groups |->
        [item_code |-> groups[k].item_code, unit_id |-> groups[k].unit_id,
         description |-> group_description(groups[k]),
         quantity |-> groups[k].quantity]]

\* rates_map: the rate of the last line_items entry carrying a key
has_rate(line_items_input, key) ==
    \E k \in DOMAIN line_items_input :
        <<line_items_input[k].item_code, line_items_input[k].unit_id>> = key

rates_map(line_items_input, key) ==
    LET last == CHOOSE k \in DOMAIN line_items_input :
                /\ <<line_items_input[k].item_code, line_items_input[k].unit_id>> = key
                /\ \A j \in DOMAIN line_items_input :
                    <<line_items_input[j].item_code, line_items_input[j].unit_id>> = key
                        => j <= k
    IN  line_items_input[last].unit_price_usd

\* key not in rates_map or rates_map[key] <= 0
rate_missing(line_items_input, g) ==
    \/ ~has_rate(line_items_input, g.key)
    \/ rates_map(line_items_input, g.key) <= 0

first_invalid_rates_only(groups, line_items_input) ==
    LET failing == {k \in DOMAIN groups : rate_missing(line_items_input, groups[k])}
    IN  IF failing = {} THEN 0
        ELSE CHOOSE k \in failing : \A j \in failing : k <= j

\* The validation loop returns at the first group, in the dict's order, whose
\* rate is missing or not positive or whose quantity is not positive; 0 when
\* every group passes.
first_invalid(groups, line_items_input) ==
    LET failing == {k \in DOMAIN groups :
                        \/ rate_missing(line_items_input, groups[k])
                        \/ groups[k].quantity <= 0}
    IN  IF failing = {} THEN 0
        ELSE CHOOSE k \in failing : \A j \in failing : k <= j

\* GET aggregate-from-packing-list
PackingListViewSet_aggregate_from_packing_list(d, user, pl_id, order) ==
    IF pl_id = 0
    THEN Response(d, HTTP_400_BAD_REQUEST, "packing_list_id is required")
    ELSE IF ~get_object(d.PackingList, pl_id)
    THEN Response(d, HTTP_404_NOT_FOUND, "Packing List not found.")
    ELSE IF d.PackingList[pl_id].status # "APPROVED"
    THEN Response(d, HTTP_400_BAD_REQUEST, "Packing List must be Approved.")
    ELSE IF aggregate_groups(d, pl_id, order) = <<>>
    THEN Response(d, HTTP_400_BAD_REQUEST,
                  "No items found to aggregate for this Packing List.")
    ELSE ResponseData(d, HTTP_200_OK,
                      line_items_payload(aggregate_groups(d, pl_id, order)))

\* The loop creating one line item per group inside the transaction; each
\* CommercialInvoiceLineItem.objects.create saves the row and recalculates.
RECURSIVE create_line_items(_, _, _, _)
create_line_items(d, ci, groups, line_items_input) ==
    IF groups = <<>> THEN d
    ELSE create_line_items(
            CommercialInvoiceLineItem_save(d, 0,
                [NewLineItem(ci) EXCEPT
                    !.item_code = Head(groups).item_code,
                    !.description = group_description(Head(groups)),
                    !.quantity = Head(groups).quantity,
                    !.unit_price_usd = rates_map(line_items_input, Head(groups).key)]),
            ci, Tail(groups), line_items_input)

transaction_not_atomic(d, attempted, raised) == attempted

\* with transaction.atomic(): the block's writes are kept when it ends, and
\* undone when an exception leaves it.
transaction_atomic(d, attempted, raised) == IF raised THEN d ELSE attempted

\* POST create-from-packing-list
PackingListViewSet_create_from_packing_list(d, user, body, order) ==
    LET groups == aggregate_groups(d, body.packing_list_id, order)
        ci == Len(d.CommercialInvoice) + 1
        invalid == first_invalid(groups, body.line_items)
    IN
    IF ~(_is_maker(user) \/ _is_admin(user))
    THEN Response(d, HTTP_403_FORBIDDEN, "Not allowed to create.")
    ELSE IF body.packing_list_id = 0
    THEN Response(d, HTTP_400_BAD_REQUEST, "packing_list_id is required")
    ELSE IF body.bank_id = 0
    THEN Response(d, HTTP_400_BAD_REQUEST, "bank_id is required")
    ELSE IF ~get_object(d.PackingList, body.packing_list_id)
    THEN Response(d, HTTP_404_NOT_FOUND, "Packing List not found.")
    ELSE IF d.PackingList[body.packing_list_id].status # "APPROVED"
    THEN Response(d, HTTP_400_BAD_REQUEST, "Packing List must be Approved.")
    ELSE IF groups = <<>>
    THEN Response(d, HTTP_400_BAD_REQUEST,
                  "No items found to generate Commercial Invoice.")
    ELSE IF invalid # 0 /\ rate_missing(body.line_items, groups[invalid])
    THEN Response(d, HTTP_400_BAD_REQUEST, "Rate must be entered and be greater than zero.")
    ELSE IF invalid # 0
    THEN Response(d, HTTP_400_BAD_REQUEST, "Quantity must be greater than zero.")
    ELSE LET attempted ==
                [create_line_items(
                    [d EXCEPT !.CommercialInvoice = Append(@,
                        NewCommercialInvoice(d.CommercialInvoice, d.year, user,
                                             body.packing_list_id))],
                    ci, groups, body.line_items)
                  EXCEPT !.CommercialInvoiceAuditTrail =
                                AuditTrail_create(@, ci, "CREATED", user,
                                                  "Created from Packing List",
                                                  timezone_now(d)),
                         !.now = timezone_now(d)]
             IntegrityError == body.bank_id \notin BankMaster
         IN  IF IntegrityError
             THEN Response(transaction_atomic(d, attempted, TRUE),
                           HTTP_500_INTERNAL_SERVER_ERROR, "IntegrityError")
             ELSE Response(transaction_atomic(d, attempted, FALSE),
                           HTTP_201_CREATED, "")

-----------------------------------------------------------------------------
(* Requests: urls.py router, and the request bodies the model sends *)

\* A request: the route's handler, the authenticated user, the URL's pk and
\* item_id, the JSON body, the body's notes, and PATCH (partial) against PUT;
\* order is the order in which the database hands the container items of the
\* packing list to the handler's loops while the request is served.
Request(op, user, pk) ==
    [op |-> op, user |-> user, pk |-> pk, item_id |-> 0, body |-> <<>>,
     notes |-> "", partial |-> TRUE, order |-> <<>>]

\* router.register(...): the handler of each route
Handle(d, req) ==
    CASE req.op = "ProformaInvoiceViewSet.create" ->
            ProformaInvoiceViewSet_create(d, req.user, req.body)
      [] req.op = "ProformaInvoiceViewSet.update" ->
            ProformaInvoiceViewSet_update(d, req.user, req.pk, req.body)
      [] req.op = "ProformaInvoiceViewSet.destroy" ->
            ProformaInvoiceViewSet_destroy(d, req.user, req.pk)
      [] req.op = "ProformaInvoiceViewSet.deactivate" ->
            ProformaInvoiceViewSet_deactivate(d, req.user, req.pk)
      [] req.op = "ProformaInvoiceViewSet.submit" ->
            ProformaInvoiceViewSet_submit(d, req.user, req.pk)
      [] req.op = "ProformaInvoiceViewSet.approve" ->
            ProformaInvoiceViewSet_approve(d, req.user, req.pk)
      [] req.op = "ProformaInvoiceViewSet.reject" ->
            ProformaInvoiceViewSet_reject(d, req.user, req.pk, req.notes)
      [] req.op = "ProformaInvoiceViewSet.audit" ->
            ProformaInvoiceViewSet_audit(d, req.user, req.pk)
      [] req.op = "ProformaInvoiceViewSet.pdf" ->
            ProformaInvoiceViewSet_pdf(d, req.user, req.pk)
      [] req.op = "ProformaInvoiceViewSet.line_items" ->
            ProformaInvoiceViewSet_line_items(d, req.user, req.pk, req.body)
      [] req.op = "ProformaInvoiceViewSet.update_line_item" ->
            ProformaInvoiceViewSet_update_line_item(d, req.user, req.pk, req.item_id, req.body)
      [] req.op = "ProformaInvoiceViewSet.deactivate_line_item" ->
            ProformaInvoiceViewSet_deactivate_line_item(d, req.user, req.pk, req.item_id)
      [] req.op = "CommercialInvoiceViewSet.create" ->
            CommercialInvoiceViewSet_create(d, req.user, req.body)
      [] req.op = "CommercialInvoiceViewSet.update" ->
            CommercialInvoiceViewSet_update(d, req.user, req.pk, req.body)
      [] req.op = "CommercialInvoiceViewSet.destroy" ->
            CommercialInvoiceViewSet_destroy(d, req.user, req.pk)
      [] req.op = "CommercialInvoiceViewSet.deactivate" ->
            CommercialInvoiceViewSet_deactivate(d, req.user, req.pk)
      [] req.op = "CommercialInvoiceViewSet.submit" ->
            CommercialInvoiceViewSet_submit(d, req.user, req.pk)
      [] req.op = "CommercialInvoiceViewSet.approve" ->
            CommercialInvoiceViewSet_approve(d, req.user, req.pk)
      [] req.op = "CommercialInvoiceViewSet.reject" ->
            CommercialInvoiceViewSet_reject(d, req.user, req.pk, req.notes)
      [] req.op = "CommercialInvoiceViewSet.disable" ->
            CommercialInvoiceViewSet_disable(d, req.user, req.pk)
      [] req.op = "CommercialInvoiceViewSet.pdf_draft" ->
            CommercialInvoiceViewSet_pdf_draft(d, req.user, req.pk)
      [] req.op = "CommercialInvoiceViewSet.pdf" ->
            CommercialInvoiceViewSet_pdf(d, req.user, req.pk)
      [] req.op = "CommercialInvoiceViewSet.audit" ->
            CommercialInvoiceViewSet_audit(d, req.user, req.pk)
      [] req.op = "CommercialInvoiceViewSet.line_items" ->
            CommercialInvoiceViewSet_line_items(d, req.user, req.pk, req.body)
      [] req.op = "CommercialInvoiceViewSet.update_line_item" ->
            CommercialInvoiceViewSet_update_line_item(d, req.user, req.pk, req.item_id, req.body)
      [] req.op = "CommercialInvoiceViewSet.deactivate_line_item" ->
            CommercialInvoiceViewSet_deactivate_line_item(d, req.user, req.pk, req.item_id)
      [] req.op = "PackingListViewSet.create" ->
            PackingListViewSet_create(d, req.user, req.body)
      [] req.op = "PackingListViewSet.update" ->
            PackingListViewSet_update(d, req.user, req.pk, req.body, req.partial)
      [] req.op = "PackingListViewSet.destroy" ->
            PackingListViewSet_destroy(d, req.user, req.pk)
      [] req.op = "PackingListViewSet.deactivate" ->
            PackingListViewSet_deactivate(d, req.user, req.pk)
      [] req.op = "PackingListViewSet.submit" ->
            PackingListViewSet_submit(d, req.user, req.pk)
      [] req.op = "PackingListViewSet.approve" ->
            PackingListViewSet_approve(d, req.user, req.pk)
      [] req.op = "PackingListViewSet.reject" ->
            PackingListViewSet_reject(d, req.user, req.pk, req.notes)
      [] req.op = "PackingListViewSet.permanently_reject" ->
            PackingListViewSet_permanently_reject(d, req.user, req.pk)
      [] req.op = "PackingListViewSet.pdf" ->
            PackingListViewSet_pdf(d, req.user, req.pk)
      [] req.op = "PackingListViewSet.aggregate_from_packing_list" ->
            PackingListViewSet_aggregate_from_packing_list(d, req.user, req.pk, req.order)
      [] req.op = "PackingListViewSet.create_from_packing_list" ->
            PackingListViewSet_create_from_packing_list(d, req.user, req.body, req.order)

\* Bodies of a header create or update of a Proforma or Commercial Invoice: a
\* plain column, the soft-delete flag, and the workflow columns with the number.
HeaderBodies ==
    {[invoice_number |-> "INV-7"],
     [is_active |-> FALSE],
     [status |-> "APPROVED", last_checker |-> "maker", approved_at |-> 9,
      number |-> <<"PI", 2025, <<0, 0, 0, 9>>>>]}

\* Notes of a reject: none, blank, a comment, and a comment between blanks.
Notes == {"", " ", "fix HS code", " fix HS code "}

\* Bodies of a line-item create and of a line-item PATCH.
LineItemBodies == {[quantity |-> 1500, unit_price_usd |-> 3]}

LineItemPatchBodies == {[quantity |-> 2500], [is_active |-> FALSE], [invoice |-> 2]}

\* Container payloads of a Packing List: two new containers holding the same
\* item, and the first stored container kept with its first item.
NewContainers ==
    <<[id |-> 0, container_reference |-> "CONT-1",
       items |-> <<[id |-> 0, item_code |-> "ITM-1", uom |-> 1, quantity |-> 1500,
                    description_of_goods |-> <<"Urea">>]>>],
      [id |-> 0, container_reference |-> "CONT-2",
       items |-> <<[id |-> 0, item_code |-> "ITM-1", uom |-> 1, quantity |-> 2000,
                    description_of_goods |-> <<"Urea">>]>>]>>

KeptContainers ==
    <<[id |-> 1, container_reference |-> "CONT-1A",
       items |-> <<[id |-> 1, item_code |-> "ITM-1", uom |-> 1, quantity |-> 4000,
                    description_of_goods |-> <<"Urea">>]>>]>>

PackingListCreateBodies ==
    {[containers |-> NewContainers],
     [containers |-> <<>>, last_checker |-> "maker", approved_at |-> 9],
     [invoice_number |-> "INV-7"]}

PackingListUpdateBodies ==
    {[invoice_number |-> "INV-7"],
     [invoice_number |-> "INV-7", containers |-> KeptContainers],
     [status |-> "APPROVED", last_checker |-> "maker", submitted_at |-> 9,
      approved_at |-> 9, reworked_at |-> 9, containers |-> KeptContainers],
     [number |-> <<"PL", 2025, <<0, 0, 0, 9>>>>, invoice_number |-> "INV-9",
      containers |-> KeptContainers],
     [status |-> "PERMANENTLY_REJECTED", containers |-> KeptContainers]}

\* Bodies of create-from-packing-list: for the item in the first unit of
\* measure a rate, a rate of zero or no rate, in the second a rate or none;
\* with a bank, without one, and with a bank that is not stored.
Rates(unit_id, prices) ==
    {<<>>} \cup {<<[item_code |-> "ITM-1", unit_id |-> unit_id, unit_price_usd |-> p]>> :
                    p \in prices}

CreateFromPackingListBodies ==
    {[packing_list_id |-> 1, bank_id |-> 1, line_items |-> l1 \o l2] :
        l1 \in Rates(1, {0, 5}), l2 \in Rates(2, {7})}
    \cup {[packing_list_id |-> 1, bank_id |-> b,
           line_items |-> <<[item_code |-> "ITM-1", unit_id |-> 1, unit_price_usd |-> 5],
                            [item_code |-> "ITM-1", unit_id |-> 2, unit_price_usd |-> 7]>>] :
            b \in {0, 2}}

-----------------------------------------------------------------------------
(* The initial databases *)

\* The database of a fresh installation: no document stored.  year is the
\* calendar year timezone.now() is in; a row's created_at is kept as its year.
EmptyDB ==
    [now |-> 0, year |-> 2025,
     ProformaInvoice |-> <<>>, ProformaInvoiceLineItem |-> <<>>,
     ProformaInvoiceAuditTrail |-> <<>>,
     CommercialInvoice |-> <<>>, CommercialInvoiceLineItem |-> <<>>,
     CommercialInvoiceAuditTrail |-> <<>>,
     PackingList |-> <<>>, PackingListContainer |-> <<>>,
     PackingListContainerItem |-> <<>>]

\* The database a sequence of requests leaves, handled one after another.
RECURSIVE Run(_, _)
Run(d, requests) ==
    IF requests = <<>> THEN d
    ELSE Run(Handle(d, Head(requests)).db, Tail(requests))

\* The life of one document of each type, as the requests of its maker and
\* checker: created, given a line item, submitted, rejected or approved, and
\* (a Commercial Invoice) disabled.
ProformaInvoice_life ==
    <<[Request("ProformaInvoiceViewSet.create", "maker", 0) EXCEPT
            !.body = [invoice_number |-> "INV-1"]],
      [Request("ProformaInvoiceViewSet.line_items", "maker", 1) EXCEPT
            !.body = [quantity |-> 1500, unit_price_usd |-> 3]],
      Request("ProformaInvoiceViewSet.submit", "maker", 1)>>

ProformaInvoice_rejected ==
    <<[Request("ProformaInvoiceViewSet.reject", "checker", 1) EXCEPT
            !.notes = "fix HS code"]>>

ProformaInvoice_approved == <<Request("ProformaInvoiceViewSet.approve", "checker", 1)>>

CommercialInvoice_life ==
    <<[Request("CommercialInvoiceViewSet.create", "maker", 0) EXCEPT
            !.body = [invoice_number |-> "INV-1"]],
      [Request("CommercialInvoiceViewSet.line_items", "maker", 1) EXCEPT
            !.body = [quantity |-> 1500, unit_price_usd |-> 3]],
      Request("CommercialInvoiceViewSet.submit", "maker", 1)>>

CommercialInvoice_rejected ==
    <<[Request("CommercialInvoiceViewSet.reject", "checker", 1) EXCEPT
            !.notes = "fix HS code"]>>

CommercialInvoice_approved ==
    <<Request("CommercialInvoiceViewSet.approve", "checker", 1),
      Request("CommercialInvoiceViewSet.disable", "checker", 1)>>

PackingList_life ==
    <<[Request("PackingListViewSet.create", "maker", 0) EXCEPT
            !.body = [containers |-> NewContainers]],
      Request("PackingListViewSet.submit", "maker", 1)>>

PackingList_rejected ==
    <<[Request("PackingListViewSet.reject", "checker", 1) EXCEPT
            !.notes = "fix HS code"]>>

PackingList_approved == <<Request("PackingListViewSet.approve", "checker", 1)>>

\* The end of a document by soft delete: an admin deactivates the submitted
\* document; a maker deactivates the line item of a draft.
ProformaInvoice_deactivated ==
    <<Request("ProformaInvoiceViewSet.deactivate", "admin", 1)>>

CommercialInvoice_deactivated ==
    <<Request("CommercialInvoiceViewSet.deactivate", "admin", 1)>>

PackingList_deactivated ==
    <<Request("PackingListViewSet.deactivate", "admin", 1)>>

ProformaInvoice_item_deactivated ==
    SubSeq(ProformaInvoice_life, 1, 2) \o
    <<[Request("ProformaInvoiceViewSet.deactivate_line_item", "maker", 1) EXCEPT
            !.item_id = 1]>>

CommercialInvoice_item_deactivated ==
    SubSeq(CommercialInvoice_life, 1, 2) \o
    <<[Request("CommercialInvoiceViewSet.deactivate_line_item", "maker", 1) EXCEPT
            !.item_id = 1]>>

\* Two invoices of a maker: the first with its line item, the second empty.
ProformaInvoice_pair ==
    SubSeq(ProformaInvoice_life, 1, 2) \o
    <<[Request("ProformaInvoiceViewSet.create", "maker", 0) EXCEPT
            !.body = [invoice_number |-> "INV-2"]]>>

CommercialInvoice_pair ==
    SubSeq(CommercialInvoice_life, 1, 2) \o
    <<[Request("CommercialInvoiceViewSet.create", "maker", 0) EXCEPT
            !.body = [invoice_number |-> "INV-2"]]>>

\* The turn of the year: the clock is in the next year, the rows stay.
next_year(d) == [d EXCEPT !.year = @ + 1]

Prefixes(requests) == {SubSeq(requests, 1, n) : n \in 0 .. Len(requests)}

\* The databases the model starts from: each is what the handlers leave after
\* a prefix of one document's life, from the empty database.
Seeds ==
    {Run(EmptyDB, requests) : requests \in
        Prefixes(ProformaInvoice_life \o ProformaInvoice_rejected)
        \cup Prefixes(ProformaInvoice_life \o ProformaInvoice_approved)
        \cup Prefixes(CommercialInvoice_life \o CommercialInvoice_rejected)
        \cup Prefixes(CommercialInvoice_life \o CommercialInvoice_approved)
        \cup Prefixes(PackingList_life \o PackingList_rejected)
        \cup Prefixes(PackingList_life \o PackingList_approved)
        \cup {ProformaInvoice_life \o ProformaInvoice_deactivated,
              CommercialInvoice_life \o CommercialInvoice_deactivated,
              PackingList_life \o PackingList_deactivated,
              ProformaInvoice_pair, CommercialInvoice_pair,
              ProformaInvoice_item_deactivated,
              CommercialInvoice_item_deactivated}}
    \cup {next_year(Run(EmptyDB, requests)) : requests \in
            {SubSeq(ProformaInvoice_life, 1, 1), SubSeq(CommercialInvoice_life, 1, 1),
             PackingList_life \o PackingList_approved}}

NoResponse ==
    [op |-> "", user |-> "", pk |-> 0, item_id |-> 0, notes |-> "", code |-> 0,
     detail |-> "", data |-> <<>>, order |-> <<>>]

Init ==
    /\ db \in Seeds
    /\ writes = 0
    /\ handled = 0
    /\ resp = NoResponse
    /\ inflight = <<>>

-----------------------------------------------------------------------------
(* One request handled *)

\* The tables a request may leave: no longer than the model's bounds.
within_bounds(d) ==
    /\ Len(d.ProformaInvoice) <= MaxDocs
    /\ Len(d.CommercialInvoice) <= MaxDocs
    /\ Len(d.PackingList) <= MaxDocs
    /\ Len(d.ProformaInvoiceLineItem) <= MaxItems
    /\ Len(d.CommercialInvoiceLineItem) <= MaxItems
    /\ Len(d.PackingListContainer) <= MaxItems
    /\ Len(d.PackingListContainerItem) <= MaxItems

\* The handler of the request runs to completion on the database; the
\* response is kept with the request it answers.
Step(req) ==
    /\ handled < MaxRequests
    /\ \E r \in {Handle(db, req)} :
        /\ r.db # db => writes < MaxWrites
        /\ db' = r.db
        /\ writes' = IF r.db # db THEN writes + 1 ELSE writes
        /\ resp' = [op |-> req.op, user |-> req.user, pk |-> req.pk,
                    item_id |-> req.item_id, notes |-> req.notes,
                    code |-> r.code, detail |-> r.detail, data |-> r.data,
                    order |-> req.order]
    /\ handled' = handled + 1
    /\ UNCHANGED inflight

-----------------------------------------------------------------------------
(* The routes: one action per route of urls.py, over every user, every     *)
(* stored document and the bodies above                                    *)

\* POST proforma-invoices/
POST_proforma_invoices ==
    \E user \in Users,
       body \in HeaderBodies :
        /\ Step([Request("ProformaInvoiceViewSet.create", user, 0) EXCEPT
                    !.body = body])
        /\ within_bounds(db')

\* PUT or PATCH proforma-invoices/<pk>/
PATCH_proforma_invoices ==
    \E user \in Users,
       pk \in DOMAIN db.ProformaInvoice,
       body \in HeaderBodies :
        /\ Step([Request("ProformaInvoiceViewSet.update", user, pk) EXCEPT
                    !.body = body])
        /\ within_bounds(db')

\* DELETE proforma-invoices/<pk>/
DELETE_proforma_invoices ==
    \E user \in Users,
       pk \in DOMAIN db.ProformaInvoice :
        /\ Step(Request("ProformaInvoiceViewSet.destroy", user, pk))
        /\ within_bounds(db')

\* POST proforma-invoices/<pk>/deactivate/
POST_proforma_invoices_deactivate ==
    \E user \in Users,
       pk \in DOMAIN db.ProformaInvoice :
        /\ Step(Request("ProformaInvoiceViewSet.deactivate", user, pk))
        /\ within_bounds(db')

\* POST proforma-invoices/<pk>/submit/
POST_proforma_invoices_submit ==
    \E user \in Users,
       pk \in DOMAIN db.ProformaInvoice :
        /\ Step(Request("ProformaInvoiceViewSet.submit", user, pk))
        /\ within_bounds(db')

\* POST proforma-invoices/<pk>/approve/
POST_proforma_invoices_approve ==
    \E user \in Users,
       pk \in DOMAIN db.ProformaInvoice :
        /\ Step(Request("ProformaInvoiceViewSet.approve", user, pk))
        /\ within_bounds(db')

\* POST proforma-invoices/<pk>/reject/
POST_proforma_invoices_reject ==
    \E user \in Users,
       pk \in DOMAIN db.ProformaInvoice,
       notes \in Notes :
        /\ Step([Request("ProformaInvoiceViewSet.reject", user, pk) EXCEPT
                    !.notes = notes])
        /\ within_bounds(db')

\* GET proforma-invoices/<pk>/pdf/
GET_proforma_invoices_pdf ==
    \E user \in Users,
       pk \in DOMAIN db.ProformaInvoice :
        /\ Step(Request("ProformaInvoiceViewSet.pdf", user, pk))
        /\ within_bounds(db')

\* GET proforma-invoices/<pk>/audit/
GET_proforma_invoices_audit ==
    \E user \in Users,
       pk \in DOMAIN db.ProformaInvoice :
        /\ Step(Request("ProformaInvoiceViewSet.audit", user, pk))
        /\ within_bounds(db')

\* POST proforma-invoices/<pk>/line-items/
POST_proforma_invoices_line_items ==
    \E user \in Users,
       pk \in DOMAIN db.ProformaInvoice,
       body \in LineItemBodies :
        /\ Step([Request("ProformaInvoiceViewSet.line_items", user, pk) EXCEPT
                    !.body = body])
        /\ within_bounds(db')

\* PATCH proforma-invoices/<pk>/line-items/<item_id>/
PATCH_proforma_invoices_line_items ==
    \E user \in Users,
       pk \in DOMAIN db.ProformaInvoice,
       item_id \in DOMAIN db.ProformaInvoiceLineItem,
       body \in LineItemPatchBodies :
        /\ Step([Request("ProformaInvoiceViewSet.update_line_item", user, pk) EXCEPT
                    !.item_id = item_id, !.body = body])
        /\ within_bounds(db')

\* POST proforma-invoices/<pk>/line-items/<item_id>/deactivate/
POST_proforma_invoices_line_items_deactivate ==
    \E user \in Users,
       pk \in DOMAIN db.ProformaInvoice,
       item_id \in DOMAIN db.ProformaInvoiceLineItem :
        /\ Step([Request("ProformaInvoiceViewSet.deactivate_line_item", user, pk) EXCEPT
                    !.item_id = item_id])
        /\ within_bounds(db')

\* POST commercial-invoices/
POST_commercial_invoices ==
    \E user \in Users,
       body \in HeaderBodies :
        /\ Step([Request("CommercialInvoiceViewSet.create", user, 0) EXCEPT
                    !.body = body])
        /\ within_bounds(db')

\* PUT or PATCH commercial-invoices/<pk>/
PATCH_commercial_invoices ==
    \E user \in Users,
       pk \in DOMAIN db.CommercialInvoice,
       body \in HeaderBodies :
        /\ Step([Request("CommercialInvoiceViewSet.update", user, pk) EXCEPT
                    !.body = body])
        /\ within_bounds(db')

\* DELETE commercial-invoices/<pk>/
DELETE_commercial_invoices ==
    \E user \in Users,
       pk \in DOMAIN db.CommercialInvoice :
        /\ Step(Request("CommercialInvoiceViewSet.destroy", user, pk))
        /\ within_bounds(db')

\* POST commercial-invoices/<pk>/deactivate/
POST_commercial_invoices_deactivate ==
    \E user \in Users,
       pk \in DOMAIN db.CommercialInvoice :
        /\ Step(Request("CommercialInvoiceViewSet.deactivate", user, pk))
        /\ within_bounds(db')

\* POST commercial-invoices/<pk>/submit/
POST_commercial_invoices_submit ==
    \E user \in Users,
       pk \in DOMAIN db.CommercialInvoice :
        /\ Step(Request("CommercialInvoiceViewSet.submit", user, pk))
        /\ within_bounds(db')

\* POST commercial-invoices/<pk>/approve/
POST_commercial_invoices_approve ==
    \E user \in Users,
       pk \in DOMAIN db.CommercialInvoice :
        /\ Step(Request("CommercialInvoiceViewSet.approve", user, pk))
        /\ within_bounds(db')

\* POST commercial-invoices/<pk>/reject/
POST_commercial_invoices_reject ==
    \E user \in Users,
       pk \in DOMAIN db.CommercialInvoice,
       notes \in Notes :
        /\ Step([Request("CommercialInvoiceViewSet.reject", user, pk) EXCEPT
                    !.notes = notes])
        /\ within_bounds(db')

\* POST commercial-invoices/<pk>/disable/
POST_commercial_invoices_disable ==
    \E user \in Users,
       pk \in DOMAIN db.CommercialInvoice :
        /\ Step(Request("CommercialInvoiceViewSet.disable", user, pk))
        /\ within_bounds(db')

\* GET commercial-invoices/<pk>/pdf_draft/
GET_commercial_invoices_pdf_draft ==
    \E user \in Users,
       pk \in DOMAIN db.CommercialInvoice :
        /\ Step(Request("CommercialInvoiceViewSet.pdf_draft", user, pk))
        /\ within_bounds(db')

\* GET commercial-invoices/<pk>/pdf/
GET_commercial_invoices_pdf ==
    \E user \in Users,
       pk \in DOMAIN db.CommercialInvoice :
        /\ Step(Request("CommercialInvoiceViewSet.pdf", user, pk))
        /\ within_bounds(db')

\* GET commercial-invoices/<pk>/audit/
GET_commercial_invoices_audit ==
    \E user \in Users,
       pk \in DOMAIN db.CommercialInvoice :
        /\ Step(Request("CommercialInvoiceViewSet.audit", user, pk))
        /\ within_bounds(db')

\* POST commercial-invoices/<pk>/line-items/
POST_commercial_invoices_line_items ==
    \E user \in Users,
       pk \in DOMAIN db.CommercialInvoice,
       body \in LineItemBodies :
        /\ Step([Request("CommercialInvoiceViewSet.line_items", user, pk) EXCEPT
                    !.body = body])
        /\ within_bounds(db')

\* PATCH commercial-invoices/<pk>/line-items/<item_id>/
PATCH_commercial_invoices_line_items ==
    \E user \in Users,
       pk \in DOMAIN db.CommercialInvoice,
       item_id \in DOMAIN db.CommercialInvoiceLineItem,
       body \in LineItemPatchBodies :
        /\ Step([Request("CommercialInvoiceViewSet.update_line_item", user, pk) EXCEPT
                    !.item_id = item_id, !.body = body])
        /\ within_bounds(db')

\* POST commercial-invoices/<pk>/line-items/<item_id>/deactivate/
POST_commercial_invoices_line_items_deactivate ==
    \E user \in Users,
       pk \in DOMAIN db.CommercialInvoice,
       item_id \in DOMAIN db.CommercialInvoiceLineItem :
        /\ Step([Request("CommercialInvoiceViewSet.deactivate_line_item", user, pk) EXCEPT
                    !.item_id = item_id])
        /\ within_bounds(db')

\* POST packing-lists/
POST_packing_lists ==
    \E user \in Users,
       body \in PackingListCreateBodies :
        /\ Step([Request("PackingListViewSet.create", user, 0) EXCEPT
                    !.body = body])
        /\ within_bounds(db')

\* PUT (partial = FALSE) or PATCH (partial = TRUE) packing-lists/<pk>/
PATCH_packing_lists ==
    \E user \in Users,
       pk \in DOMAIN db.PackingList,
       body \in PackingListUpdateBodies,
       partial \in BOOLEAN :
        /\ Step([Request("PackingListViewSet.update", user, pk) EXCEPT
                    !.body = body, !.partial = partial])
        /\ within_bounds(db')

\* DELETE packing-lists/<pk>/
DELETE_packing_lists ==
    \E user \in Users,
       pk \in DOMAIN db.PackingList :
        /\ Step(Request("PackingListViewSet.destroy", user, pk))
        /\ within_bounds(db')

\* POST packing-lists/<pk>/deactivate/
POST_packing_lists_deactivate ==
    \E user \in Users,
       pk \in DOMAIN db.PackingList :
        /\ Step(Request("PackingListViewSet.deactivate", user, pk))
        /\ within_bounds(db')

\* POST packing-lists/<pk>/submit/
POST_packing_lists_submit ==
    \E user \in Users,
       pk \in DOMAIN db.PackingList :
        /\ Step(Request("PackingListViewSet.submit", user, pk))
        /\ within_bounds(db')

\* POST packing-lists/<pk>/approve/
POST_packing_lists_approve ==
    \E user \in Users,
       pk \in DOMAIN db.PackingList :
        /\ Step(Request("PackingListViewSet.approve", user, pk))
        /\ within_bounds(db')

\* POST packing-lists/<pk>/reject/
POST_packing_lists_reject ==
    \E user \in Users,
       pk \in DOMAIN db.PackingList,
       notes \in Notes :
        /\ Step([Request("PackingListViewSet.reject", user, pk) EXCEPT
                    !.notes = notes])
        /\ within_bounds(db')

\* POST packing-lists/<pk>/permanently_reject/
POST_packing_lists_permanently_reject ==
    \E user \in Users,
       pk \in DOMAIN db.PackingList :
        /\ Step(Request("PackingListViewSet.permanently_reject", user, pk))
        /\ within_bounds(db')

\* GET packing-lists/<pk>/pdf/
GET_packing_lists_pdf ==
    \E user \in Users,
       pk \in DOMAIN db.PackingList :
        /\ Step(Request("PackingListViewSet.pdf", user, pk))
        /\ within_bounds(db')

\* GET packing-lists/aggregate-from-packing-list/?packing_list_id=<pk>
GET_packing_lists_aggregate_from_packing_list ==
    \E user \in Users,
       pk \in DOMAIN db.PackingList :
    \E order \in Orders(db, pk) :
        /\ Step([Request("PackingListViewSet.aggregate_from_packing_list", user, pk) EXCEPT
                    !.order = order])
        /\ within_bounds(db')

\* POST packing-lists/create-from-packing-list/; the request is kept under the body's packing_list_id
POST_packing_lists_create_from_packing_list ==
    \E user \in Users,
       body \in CreateFromPackingListBodies :
    \E order \in Orders(db, body.packing_list_id) :
        /\ Step([Request("PackingListViewSet.create_from_packing_list", user, 0) EXCEPT
                    !.pk = body.packing_list_id, !.body = body, !.order = order])
        /\ within_bounds(db')

Next ==
    \/ POST_proforma_invoices
    \/ PATCH_proforma_invoices
    \/ DELETE_proforma_invoices
    \/ POST_proforma_invoices_deactivate
    \/ POST_proforma_invoices_submit
    \/ POST_proforma_invoices_approve
    \/ POST_proforma_invoices_reject
    \/ GET_proforma_invoices_pdf
    \/ GET_proforma_invoices_audit
    \/ POST_proforma_invoices_line_items
    \/ PATCH_proforma_invoices_line_items
    \/ POST_proforma_invoices_line_items_deactivate
    \/ POST_commercial_invoices
    \/ PATCH_commercial_invoices
    \/ DELETE_commercial_invoices
    \/ POST_commercial_invoices_deactivate
    \/ POST_commercial_invoices_submit
    \/ POST_commercial_invoices_approve
    \/ POST_commercial_invoices_reject
    \/ POST_commercial_invoices_disable
    \/ GET_commercial_invoices_pdf_draft
    \/ GET_commercial_invoices_pdf
    \/ GET_commercial_invoices_audit
    \/ POST_commercial_invoices_line_items
    \/ PATCH_commercial_invoices_line_items
    \/ POST_commercial_invoices_line_items_deactivate
    \/ POST_packing_lists
    \/ PATCH_packing_lists
    \/ DELETE_packing_lists
    \/ POST_packing_lists_deactivate
    \/ POST_packing_lists_submit
    \/ POST_packing_lists_approve
    \/ POST_packing_lists_reject
    \/ POST_packing_lists_permanently_reject
    \/ GET_packing_lists_pdf
    \/ GET_packing_lists_aggregate_from_packing_list
    \/ POST_packing_lists_create_from_packing_list

Spec == Init /\ [][Next]_vars

-----------------------------------------------------------------------------
(* The aggregation on its own: every small Packing List, aggregated and    *)
(* turned into a Commercial Invoice                                        *)

\* The most container items of a Packing List drawn here.
MaxAggItems == 2

\* The requests handled for each Packing List drawn: the aggregation reads the
\* rows as they are, and one request shows what it does with them.
MaxAggRequests == 1

\* Quantities of a container item, in thousandths: the column takes any
\* decimal, zero included.
AggQuantities == {0, 1500}

AggDescriptions == {<<"Urea">>, <<"Urea", In_every_container>>}

\* Rows of PackingListContainerItem: is_active is FALSE after a soft delete.
AggItems ==
    [container : {1, 2}, item_code : {"ITM-1"}, uom : {1, 2},
     quantity : AggQuantities, description_of_goods : AggDescriptions,
     is_active : BOOLEAN, deleted : {FALSE}]

\* The two containers of the Packing List, the second active or not.
AggContainers ==
    {<<[packing_list |-> 1, container_reference |-> "CONT-1",
        is_active |-> TRUE, deleted |-> FALSE],
       [packing_list |-> 1, container_reference |-> "CONT-2",
        is_active |-> a, deleted |-> FALSE]>> : a \in BOOLEAN}

\* The Packing List itself: submitted, or submitted and approved.
AggPackingLists ==
    {Run(EmptyDB, requests).PackingList :
        requests \in {PackingList_life, PackingList_life \o PackingList_approved}}

AggInit ==
    /\ \E pls \in AggPackingLists, containers \in AggContainers, n \in 0 .. MaxAggItems :
        \E items \in [1 .. n -> AggItems] :
            db = [EmptyDB EXCEPT !.PackingList = pls,
                                 !.PackingListContainer = containers,
                                 !.PackingListContainerItem = items]
    /\ writes = 0
    /\ handled = 0
    /\ resp = NoResponse
    /\ inflight = <<>>

AggNext ==
    \/ handled < MaxAggRequests /\ GET_packing_lists_aggregate_from_packing_list
    \/ handled < MaxAggRequests /\ POST_packing_lists_create_from_packing_list

AggregationSpec == AggInit /\ [][AggNext]_vars

-----------------------------------------------------------------------------
(* The Commercial Invoice end to end: the run of a maker and a checker,    *)
(* and every workflow request at every point of it                        *)

CommercialInvoice_end_to_end ==
    <<[Request("CommercialInvoiceViewSet.create", "maker", 0) EXCEPT
            !.body = [invoice_number |-> "INV-1"]],
      Request("CommercialInvoiceViewSet.submit", "maker", 1),
      Request("CommercialInvoiceViewSet.reject", "checker", 1),
      [Request("CommercialInvoiceViewSet.reject", "checker", 1) EXCEPT
            !.notes = "fix HS code"],
      [Request("CommercialInvoiceViewSet.update", "maker", 1) EXCEPT
            !.body = [invoice_number |-> "INV-7"]],
      Request("CommercialInvoiceViewSet.submit", "maker", 1),
      Request("CommercialInvoiceViewSet.approve", "checker", 1),
      Request("CommercialInvoiceViewSet.disable", "checker", 1),
      Request("CommercialInvoiceViewSet.deactivate", "checker", 1)>>

\* The database at each point of the run.
EndToEndInit ==
    /\ db \in {Run(EmptyDB, requests) : requests \in Prefixes(CommercialInvoice_end_to_end)}
    /\ writes = 0
    /\ handled = 0
    /\ resp = NoResponse
    /\ inflight = <<>>

EndToEndNext ==
    \/ PATCH_commercial_invoices
    \/ POST_commercial_invoices_submit
    \/ POST_commercial_invoices_reject
    \/ POST_commercial_invoices_approve
    \/ POST_commercial_invoices_disable
    \/ POST_commercial_invoices_deactivate

EndToEndSpec == EndToEndInit /\ [][EndToEndNext]_vars

-----------------------------------------------------------------------------
(* Two creations of a Proforma Invoice served side by side:                *)
(* models.py ProformaInvoice.save, generate_number                        *)

Creations == {1, 2}

\* Two POST proforma-invoices/ have arrived, each from a maker or an admin;
\* neither has reached ProformaInvoice.save yet.
NumberRaceInit ==
    /\ db \in Seeds
    /\ writes = 0
    /\ handled = 0
    /\ resp = NoResponse
    /\ inflight \in [Creations -> [pc : {"save"}, user : {"maker", "admin"},
                                   number : {<<>>}]]

\* self.generate_number(): the SELECT COUNT of the rows with the prefix, and
\* the number kept on the instance.
ProformaInvoice_save_generate_number ==
    \E p \in Creations :
        /\ inflight[p].pc = "save"
        /\ inflight' = [inflight EXCEPT
                ![p].pc = "super().save",
                ![p].number = ProformaInvoice_generate_number(db.ProformaInvoice, db.year)]
        /\ UNCHANGED <<db, writes, handled, resp>>

\* An INSERT into a table without the unique index, to test the properties
\* against.
save_insert_without_unique_index ==
    \E p \in Creations :
        /\ inflight[p].pc = "super().save"
        /\ inflight' = [inflight EXCEPT ![p].pc = "saved"]
        /\ db' = [db EXCEPT !.ProformaInvoice = Append(@,
                    NewProformaInvoice(inflight[p].number, db.year, inflight[p].user))]
        /\ UNCHANGED <<writes, handled, resp>>

\* super().save(): the INSERT, which the unique index on number refuses with
\* an IntegrityError when a row already has the number.
ProformaInvoice_save_insert ==
    \E p \in Creations :
        /\ inflight[p].pc = "super().save"
        /\ IF \E pk \in DOMAIN db.ProformaInvoice :
                    db.ProformaInvoice[pk].number = inflight[p].number
           THEN /\ inflight' = [inflight EXCEPT ![p].pc = "IntegrityError"]
                /\ UNCHANGED db
           ELSE /\ inflight' = [inflight EXCEPT ![p].pc = "saved"]
                /\ db' = [db EXCEPT !.ProformaInvoice = Append(@,
                            NewProformaInvoice(inflight[p].number, db.year,
                                               inflight[p].user))]
        /\ UNCHANGED <<writes, handled, resp>>

NumberRaceNext ==
    \/ ProformaInvoice_save_generate_number
    \/ ProformaInvoice_save_insert

NumberRaceSpec == NumberRaceInit /\ [][NumberRaceNext]_vars

-----------------------------------------------------------------------------
(* An approve and a reject of one invoice served side by side:             *)
(* api.py ProformaInvoiceViewSet / CommercialInvoiceViewSet approve, reject *)

Decisions == {"approve", "reject"}

Invoices ==
    {[table |-> "ProformaInvoice", trail |-> "ProformaInvoiceAuditTrail",
      viewset |-> "ProformaInvoiceViewSet", life |-> ProformaInvoice_life],
     [table |-> "CommercialInvoice", trail |-> "CommercialInvoiceAuditTrail",
      viewset |-> "CommercialInvoiceViewSet", life |-> CommercialInvoice_life]}

\* invoice.save(update_fields=[...]): the columns the UPDATE of each action
\* writes (updated_at is not kept in the rows).
update_fields(table, decision) ==
    IF decision = "approve" THEN {"status", "approved_at", "last_checker"}
    ELSE IF table = "ProformaInvoice" THEN {"status", "reworked_at", "last_checker"}
    ELSE {"status", "rejected_at", "last_checker"}

\* An invoice is PENDING_APPROVAL, and an approve and a reject of it have
\* arrived, each from any user; neither has read the invoice yet.
DecisionRaceInit ==
    \E invoice \in Invoices :
        /\ db = Run(EmptyDB, invoice.life)
        /\ writes = 0
        /\ handled = 0
        /\ resp = NoResponse
        /\ inflight \in [Decisions -> [pc : {"get_object"}, invoice : {invoice},
                                       user : Users, notes : {"fix HS code"},
                                       instance : {<<>>}, audit : {<<>>},
                                       code : {0}]]

\* What the rest of the handler does with the instance it holds: the handler
\* run on the database as the request has read it.
Decided(decision) ==
    LET p == inflight[decision]
        op == IF decision = "approve" THEN p.invoice.viewset \o ".approve"
              ELSE p.invoice.viewset \o ".reject"
    IN  Handle([db EXCEPT ![p.invoice.table][1] = p.instance],
               [Request(op, p.user, 1) EXCEPT !.notes = p.notes])

\* invoice = self.get_object(): the SELECT of the row.
get_object_step ==
    \E decision \in Decisions :
        /\ inflight[decision].pc = "get_object"
        /\ inflight' = [inflight EXCEPT
                ![decision].pc = "save",
                ![decision].instance = db[inflight[decision].invoice.table][1]]
        /\ UNCHANGED <<db, writes, handled, resp>>

\* The role and status checks on the instance, the transition on it, and
\* invoice.save(update_fields=[...]): an UPDATE of those columns alone.  A
\* refused request is answered here.
save_step ==
    \E decision \in Decisions :
        LET p == inflight[decision]
            r == Decided(decision)
            table == p.invoice.table
        IN  /\ p.pc = "save"
            /\ IF r.code # HTTP_200_OK
               THEN /\ inflight' = [inflight EXCEPT ![decision].pc = "done",
                                                    ![decision].code = r.code]
                    /\ UNCHANGED db
               ELSE /\ inflight' = [inflight EXCEPT
                            ![decision].pc = "audit",
                            ![decision].audit = r.db[p.invoice.trail][Len(r.db[p.invoice.trail])]]
                    /\ db' = [db EXCEPT
                            ![table][1] = [f \in DOMAIN db[table][1] |->
                                IF f \in update_fields(table, decision)
                                THEN r.db[table][1][f] ELSE db[table][1][f]],
                            !.now = timezone_now(db)]
            /\ UNCHANGED <<writes, handled, resp>>

\* <Invoice>AuditTrail.objects.create(...), and the 200 answer.
audit_step ==
    \E decision \in Decisions :
        LET p == inflight[decision] IN
        /\ p.pc = "audit"
        /\ inflight' = [inflight EXCEPT ![decision].pc = "done",
                                        ![decision].code = HTTP_200_OK]
        /\ db' = [db EXCEPT
                ![p.invoice.trail] = AuditTrail_create(@, p.audit.invoice, p.audit.action,
                                                       p.audit.actor, p.audit.notes,
                                                       timezone_now(db)),
                !.now = timezone_now(db)]
        /\ UNCHANGED <<writes, handled, resp>>

DecisionRaceNext ==
    \/ get_object_step
    \/ save_step
    \/ audit_step

DecisionRaceSpec == DecisionRaceInit /\ [][DecisionRaceNext]_vars

-----------------------------------------------------------------------------
(* Properties *)

\* Who holds which role, and which documents the API shows, restated apart
\* from the handlers' own checks.
MakerOrAdmin == {"maker", "admin"}

CheckerOrAdmin == {"checker", "admin"}

Active(table, pk) == pk \in DOMAIN table /\ table[pk].is_active

\* The workflow actions: their handler, table, actors and legal source statuses.
Workflow ==
    {[op |-> "ProformaInvoiceViewSet.submit", table |-> "ProformaInvoice",
      actors |-> MakerOrAdmin, legal |-> {"DRAFT", "REWORK"}],
     [op |-> "ProformaInvoiceViewSet.approve", table |-> "ProformaInvoice",
      actors |-> CheckerOrAdmin, legal |-> {"PENDING_APPROVAL", "REWORK"}],
     [op |-> "ProformaInvoiceViewSet.reject", table |-> "ProformaInvoice",
      actors |-> CheckerOrAdmin, legal |-> {"PENDING_APPROVAL"}],
     [op |-> "CommercialInvoiceViewSet.submit", table |-> "CommercialInvoice",
      actors |-> MakerOrAdmin, legal |-> {"DRAFT", "REJECTED"}],
     [op |-> "CommercialInvoiceViewSet.approve", table |-> "CommercialInvoice",
      actors |-> CheckerOrAdmin, legal |-> {"PENDING_APPROVAL", "REJECTED"}],
     [op |-> "CommercialInvoiceViewSet.reject", table |-> "CommercialInvoice",
      actors |-> CheckerOrAdmin, legal |-> {"PENDING_APPROVAL"}],
     [op |-> "CommercialInvoiceViewSet.disable", table |-> "CommercialInvoice",
      actors |-> CheckerOrAdmin, legal |-> {"APPROVED"}],
     [op |-> "PackingListViewSet.submit", table |-> "PackingList",
      actors |-> MakerOrAdmin, legal |-> {"DRAFT", "REWORK"}],
     [op |-> "PackingListViewSet.approve", table |-> "PackingList",
      actors |-> CheckerOrAdmin, legal |-> {"PENDING_APPROVAL"}],
     [op |-> "PackingListViewSet.reject", table |-> "PackingList",
      actors |-> CheckerOrAdmin, legal |-> {"PENDING_APPROVAL"}]}

PermanentlyReject ==
    [op |-> "PackingListViewSet.permanently_reject", table |-> "PackingList",
     actors |-> CheckerOrAdmin,
     legal |-> {"DRAFT", "PENDING_APPROVAL", "APPROVED", "REWORK", "PERMANENTLY_REJECTED"}]

\* The status edges of a Proforma and of a Commercial Invoice.
ProformaInvoice_edges ==
    {<<"ProformaInvoiceViewSet.submit", "DRAFT", "PENDING_APPROVAL">>,
     <<"ProformaInvoiceViewSet.submit", "REWORK", "PENDING_APPROVAL">>,
     <<"ProformaInvoiceViewSet.approve", "PENDING_APPROVAL", "APPROVED">>,
     <<"ProformaInvoiceViewSet.approve", "REWORK", "APPROVED">>,
     <<"ProformaInvoiceViewSet.reject", "PENDING_APPROVAL", "REWORK">>}

CommercialInvoice_edges ==
    {<<"CommercialInvoiceViewSet.submit", "DRAFT", "PENDING_APPROVAL">>,
     <<"CommercialInvoiceViewSet.submit", "REJECTED", "PENDING_APPROVAL">>,
     <<"CommercialInvoiceViewSet.approve", "PENDING_APPROVAL", "APPROVED">>,
     <<"CommercialInvoiceViewSet.approve", "REJECTED", "APPROVED">>,
     <<"CommercialInvoiceViewSet.reject", "PENDING_APPROVAL", "REJECTED">>,
     <<"CommercialInvoiceViewSet.disable", "APPROVED", "DISABLED">>}

\* C1: the status of a Proforma Invoice and of a Commercial Invoice changes
\* only by the workflow action of an edge of its table, called on that very
\* invoice, from the edge's source status to its target; a request of any
\* other route (create, header update, line items, deactivate, pdf, audit)
\* leaves every stored invoice's status as it was.
C1_StatusChangesOnlyAlongEdges ==
    [][ /\ \A pk \in DOMAIN db.ProformaInvoice :
            db'.ProformaInvoice[pk].status # db.ProformaInvoice[pk].status
                => /\ resp'.pk = pk
                   /\ <<resp'.op, db.ProformaInvoice[pk].status,
                        db'.ProformaInvoice[pk].status>> \in ProformaInvoice_edges
        /\ \A pk \in DOMAIN db.CommercialInvoice :
            db'.CommercialInvoice[pk].status # db.CommercialInvoice[pk].status
                => /\ resp'.pk = pk
                   /\ <<resp'.op, db.CommercialInvoice[pk].status,
                        db'.CommercialInvoice[pk].status>> \in CommercialInvoice_edges
      ]_vars

\* C1 happens: a checker has just disabled an APPROVED Commercial Invoice.
C1_Witness ==
    /\ resp.op = "CommercialInvoiceViewSet.disable"
    /\ resp.code = HTTP_200_OK
    /\ db.CommercialInvoice[resp.pk].status = "DISABLED"
    /\ db.CommercialInvoice[resp.pk].disabled_at = db.now

\* The workflow columns of a Packing List.
PackingList_workflow(row) ==
    <<row.status, row.last_checker, row.submitted_at, row.approved_at, row.reworked_at>>

\* C2: a header update of a Packing List never changes its status,
\* last_checker, submitted_at, approved_at or reworked_at, whatever the body
\* carries; the status changes only by submit, approve, reject and
\* permanently_reject.
C2_PackingListUpdateKeepsWorkflow ==
    [][ \A pk \in DOMAIN db.PackingList :
            PackingList_workflow(db'.PackingList[pk]) # PackingList_workflow(db.PackingList[pk])
                => resp'.op \in {"PackingListViewSet.submit", "PackingListViewSet.approve",
                                 "PackingListViewSet.reject",
                                 "PackingListViewSet.permanently_reject"}
      ]_vars

\* C3: a workflow action called by an actor holding its role on a stored,
\* active document whose status is not a legal source of the action is
\* answered 400 and leaves the whole database, hence the document's status,
\* timestamps, last_checker and audit trail, as it was.
C3_IllegalTransitionRefused ==
    [][ \A w \in Workflow :
            (/\ resp'.op = w.op
             /\ resp'.user \in w.actors
             /\ Active(db[w.table], resp'.pk)
             /\ db[w.table][resp'.pk].status \notin w.legal)
                => /\ resp'.code = HTTP_400_BAD_REQUEST
                   /\ db' = db
      ]_vars

\* C3 happens: a checker has asked to disable a Commercial Invoice that is
\* still PENDING_APPROVAL, and was answered 400.
C3_Witness ==
    /\ resp.op = "CommercialInvoiceViewSet.disable"
    /\ resp.user = "checker"
    /\ resp.code = HTTP_400_BAD_REQUEST
    /\ Active(db.CommercialInvoice, resp.pk)
    /\ db.CommercialInvoice[resp.pk].status = "PENDING_APPROVAL"

\* C4: permanently_reject called by a checker or admin on an active Packing
\* List succeeds and leaves it PERMANENTLY_REJECTED, whatever its status was;
\* and no request changes the status of a PERMANENTLY_REJECTED Packing List.
C4_PermanentlyRejectSucceeds ==
    [][ /\ (/\ resp'.op = "PackingListViewSet.permanently_reject"
            /\ resp'.user \in CheckerOrAdmin
            /\ Active(db.PackingList, resp'.pk))
                => /\ resp'.code = HTTP_200_OK
                   /\ db'.PackingList[resp'.pk].status = "PERMANENTLY_REJECTED"
        /\ \A pk \in DOMAIN db.PackingList :
            db.PackingList[pk].status = "PERMANENTLY_REJECTED"
                => db'.PackingList[pk].status = "PERMANENTLY_REJECTED"
      ]_vars

\* The line items of an invoice, by id.
line_items_of(table, pk) == {i \in DOMAIN table : table[i].invoice = pk}

\* C5: once a Commercial Invoice is DISABLED no request of any user changes
\* its row (status, header, amount, total, is_active) or its line items.
C5_DisabledIsFrozen ==
    [][ \A pk \in DOMAIN db.CommercialInvoice :
            db.CommercialInvoice[pk].status = "DISABLED"
                => /\ db'.CommercialInvoice[pk] = db.CommercialInvoice[pk]
                   /\ line_items_of(db'.CommercialInvoiceLineItem, pk)
                        = line_items_of(db.CommercialInvoiceLineItem, pk)
                   /\ \A i \in line_items_of(db.CommercialInvoiceLineItem, pk) :
                        db'.CommercialInvoiceLineItem[i] = db.CommercialInvoiceLineItem[i]
      ]_vars

\* C6: a workflow action (submit, approve, reject, disable,
\* permanently_reject) called by an actor who lacks its role changes nothing,
\* and on a stored, active document it is answered 403.
C6_WrongRoleForbidden ==
    [][ \A w \in Workflow \cup {PermanentlyReject} :
            (resp'.op = w.op /\ resp'.user \notin w.actors)
                => /\ db' = db
                   /\ Active(db[w.table], resp'.pk) => resp'.code = HTTP_403_FORBIDDEN
      ]_vars

\* C6 happens: a maker has asked to approve a PENDING_APPROVAL Commercial
\* Invoice and was answered 403.
C6_Witness ==
    /\ resp.op = "CommercialInvoiceViewSet.approve"
    /\ resp.user = "maker"
    /\ resp.code = HTTP_403_FORBIDDEN
    /\ Active(db.CommercialInvoice, resp.pk)
    /\ db.CommercialInvoice[resp.pk].status = "PENDING_APPROVAL"

\* C7: a create of a Proforma Invoice, Packing List or Commercial Invoice
\* (plain or from a packing list) by a user who is neither maker nor admin
\* stores nothing and is answered 403.
C7_CreateNeedsMaker ==
    [][ (/\ resp'.op \in {"ProformaInvoiceViewSet.create", "PackingListViewSet.create",
                          "CommercialInvoiceViewSet.create",
                          "PackingListViewSet.create_from_packing_list"}
         /\ resp'.user \notin MakerOrAdmin)
            => /\ db' = db
               /\ resp'.code = HTTP_403_FORBIDDEN
      ]_vars

\* Who may update the header of a Commercial Invoice in a status: nobody
\* while APPROVED or DISABLED; otherwise an admin, a maker while DRAFT or
\* REJECTED, and a checker while REJECTED only.
CommercialInvoice_may_update(user, status) ==
    /\ status \notin {"APPROVED", "DISABLED"}
    /\ \/ user = "admin"
       \/ user = "maker" /\ status \in {"DRAFT", "REJECTED"}
       \/ user = "checker" /\ status = "REJECTED"

\* The same with a checker let in while DRAFT as well.
CommercialInvoice_may_update_checker_in_draft(user, status) ==
    /\ status \notin {"APPROVED", "DISABLED"}
    /\ \/ user = "admin"
       \/ user \in {"maker", "checker"} /\ status \in {"DRAFT", "REJECTED"}

\* C8: a header update of a stored, active Commercial Invoice is refused for
\* every user while it is APPROVED or DISABLED; otherwise it succeeds for an
\* admin, for a maker exactly while DRAFT or REJECTED, and for a checker
\* exactly while REJECTED; a refused update is answered 403 and changes nothing.
C8_CommercialInvoiceUpdatePermission ==
    [][ (/\ resp'.op = "CommercialInvoiceViewSet.update"
         /\ Active(db.CommercialInvoice, resp'.pk))
            => IF CommercialInvoice_may_update(resp'.user,
                                               db.CommercialInvoice[resp'.pk].status)
               THEN resp'.code = HTTP_200_OK
               ELSE resp'.code = HTTP_403_FORBIDDEN /\ db' = db
      ]_vars

\* C8 as first stated: a maker or a checker may update exactly while DRAFT or
\* REJECTED.
C8_CheckerUpdatesInDraft ==
    [][ (/\ resp'.op = "CommercialInvoiceViewSet.update"
         /\ Active(db.CommercialInvoice, resp'.pk))
            => IF CommercialInvoice_may_update_checker_in_draft(resp'.user,
                                               db.CommercialInvoice[resp'.pk].status)
               THEN resp'.code = HTTP_200_OK
               ELSE resp'.code = HTTP_403_FORBIDDEN /\ db' = db
      ]_vars

\* C8 happens: a checker has asked to update a DRAFT Commercial Invoice and
\* was answered 403.
C8_Witness ==
    /\ resp.op = "CommercialInvoiceViewSet.update"
    /\ resp.user = "checker"
    /\ resp.code = HTTP_403_FORBIDDEN
    /\ Active(db.CommercialInvoice, resp.pk)
    /\ db.CommercialInvoice[resp.pk].status = "DRAFT"

\* Who may edit a Proforma Invoice or a Packing List in a status.
may_edit(user, status) ==
    \/ user = "admin"
    \/ user = "maker" /\ status \in {"DRAFT", "REWORK"}
    \/ user = "checker" /\ status = "REWORK"

\* C9: an edit of a stored, active Proforma Invoice (header update, line-item
\* create, update, deactivate) and a header update of a stored, active Packing
\* List are let through for an admin in any status, for a maker only while
\* DRAFT or REWORK and for a checker only while REWORK, except that an
\* APPROVED Packing List is read-only for everyone; any other attempt is
\* answered 403 and changes nothing.
C9_EditPermission ==
    [][ /\ (/\ resp'.op \in {"ProformaInvoiceViewSet.update",
                             "ProformaInvoiceViewSet.line_items",
                             "ProformaInvoiceViewSet.update_line_item",
                             "ProformaInvoiceViewSet.deactivate_line_item"}
            /\ Active(db.ProformaInvoice, resp'.pk))
                => IF may_edit(resp'.user, db.ProformaInvoice[resp'.pk].status)
                   THEN resp'.code # HTTP_403_FORBIDDEN
                   ELSE resp'.code = HTTP_403_FORBIDDEN /\ db' = db
        /\ (/\ resp'.op = "PackingListViewSet.update"
            /\ Active(db.PackingList, resp'.pk))
                => IF /\ db.PackingList[resp'.pk].status # "APPROVED"
                      /\ may_edit(resp'.user, db.PackingList[resp'.pk].status)
                   THEN resp'.code # HTTP_403_FORBIDDEN
                   ELSE resp'.code = HTTP_403_FORBIDDEN /\ db' = db
      ]_vars

\* C9 happens: a checker has added a line item to a REWORK Proforma Invoice.
C9_Witness ==
    /\ resp.op = "ProformaInvoiceViewSet.line_items"
    /\ resp.user = "checker"
    /\ resp.code = HTTP_201_CREATED
    /\ db.ProformaInvoice[resp.pk].status = "REWORK"
    /\ Len(db.ProformaInvoiceLineItem) = 2

\* C10: an active Proforma Invoice becomes inactive only by the request of an
\* admin, or of a maker while it is DRAFT: no request of a non-admin maker or
\* checker makes it inactive while PENDING_APPROVAL, APPROVED or REWORK.
C10_DeactivateNeedsAdminOrDraftMaker ==
    [][ \A pk \in DOMAIN db.ProformaInvoice :
            (db.ProformaInvoice[pk].is_active /\ ~db'.ProformaInvoice[pk].is_active)
                => \/ resp'.user = "admin"
                   \/ resp'.user = "maker" /\ db.ProformaInvoice[pk].status = "DRAFT"
      ]_vars


\* The tables whose rows an API deactivate action soft-deletes.
SoftDeleted ==
    {"ProformaInvoice", "CommercialInvoice", "PackingList",
     "ProformaInvoiceLineItem", "CommercialInvoiceLineItem"}

Deactivate ==
    {[op |-> "ProformaInvoiceViewSet.deactivate", table |-> "ProformaInvoice"],
     [op |-> "CommercialInvoiceViewSet.deactivate", table |-> "CommercialInvoice"],
     [op |-> "PackingListViewSet.deactivate", table |-> "PackingList"]}

\* C11: the deactivate action called on a record that is already inactive is
\* answered 404 and changes nothing (the Packing List's deactivate is the base
\* class's, the one the master records use); and no request of any route
\* makes an inactive document or line item active again or changes its
\* deactivated_at.
C11_DeactivateIsIdempotent ==
    [][ /\ \A a \in Deactivate :
            (/\ resp'.op = a.op
             /\ resp'.pk \in DOMAIN db[a.table]
             /\ ~db[a.table][resp'.pk].is_active)
                => resp'.code = HTTP_404_NOT_FOUND /\ db' = db
        /\ \A t \in SoftDeleted : \A pk \in DOMAIN db[t] :
            ~db[t][pk].is_active
                => /\ ~db'[t][pk].is_active
                   /\ db'[t][pk].deactivated_at = db[t][pk].deactivated_at
      ]_vars

\* C11 happens: a deactivate has just been asked of a Packing List that is
\* inactive, with its deactivated_at set, and was answered 404.
C11_Witness ==
    /\ resp.op = "PackingListViewSet.deactivate"
    /\ resp.code = HTTP_404_NOT_FOUND
    /\ resp.pk \in DOMAIN db.PackingList
    /\ ~db.PackingList[resp.pk].is_active
    /\ db.PackingList[resp.pk].deactivated_at # NullTime

\* The rejections that need notes: their handler, table and target status.
RejectWithNotes ==
    {[op |-> "CommercialInvoiceViewSet.reject", table |-> "CommercialInvoice",
      target |-> "REJECTED"],
     [op |-> "PackingListViewSet.reject", table |-> "PackingList",
      target |-> "REWORK"]}

\* C12: a checker's or admin's reject of an active PENDING_APPROVAL Commercial
\* Invoice or Packing List is answered 400 and changes nothing when the notes
\* are missing, empty or blank, and otherwise succeeds and leaves the document
\* in the target status (REJECTED, REWORK).
C12_RejectNeedsNotes ==
    [][ \A a \in RejectWithNotes :
            (/\ resp'.op = a.op
             /\ resp'.user \in CheckerOrAdmin
             /\ Active(db[a.table], resp'.pk)
             /\ db[a.table][resp'.pk].status = "PENDING_APPROVAL")
                => IF strip(resp'.notes) = ""
                   THEN resp'.code = HTTP_400_BAD_REQUEST /\ db' = db
                   ELSE /\ resp'.code = HTTP_200_OK
                        /\ db'[a.table][resp'.pk].status = a.target
      ]_vars

\* The audit action of each status-changing transition of an invoice.
AuditAction ==
    {[op |-> "ProformaInvoiceViewSet.submit", table |-> "ProformaInvoice",
      trail |-> "ProformaInvoiceAuditTrail", action |-> "SUBMITTED"],
     [op |-> "ProformaInvoiceViewSet.approve", table |-> "ProformaInvoice",
      trail |-> "ProformaInvoiceAuditTrail", action |-> "APPROVED"],
     [op |-> "ProformaInvoiceViewSet.reject", table |-> "ProformaInvoice",
      trail |-> "ProformaInvoiceAuditTrail", action |-> "REJECTED"],
     [op |-> "CommercialInvoiceViewSet.submit", table |-> "CommercialInvoice",
      trail |-> "CommercialInvoiceAuditTrail", action |-> "SUBMITTED"],
     [op |-> "CommercialInvoiceViewSet.approve", table |-> "CommercialInvoice",
      trail |-> "CommercialInvoiceAuditTrail", action |-> "APPROVED"],
     [op |-> "CommercialInvoiceViewSet.reject", table |-> "CommercialInvoice",
      trail |-> "CommercialInvoiceAuditTrail", action |-> "REJECTED"],
     [op |-> "CommercialInvoiceViewSet.disable", table |-> "CommercialInvoice",
      trail |-> "CommercialInvoiceAuditTrail", action |-> "DISABLED"]}

AuditTrails == {"ProformaInvoiceAuditTrail", "CommercialInvoiceAuditTrail"}

\* The trail only grows: every stored row stays where and as it was.
AuditTrailOnlyGrows ==
    \A trail \in AuditTrails :
        /\ Len(db'[trail]) >= Len(db[trail])
        /\ SubSeq(db'[trail], 1, Len(db[trail])) = db[trail]

\* A transition request appends exactly the row its action, actor and the
\* given notes make when the status changes, and no row when it does not.
AuditRowPerTransition(notes_stored(_, _)) ==
    \A a \in AuditAction :
        resp'.op = a.op /\ resp'.pk \in DOMAIN db[a.table]
            => IF db'[a.table][resp'.pk].status # db[a.table][resp'.pk].status
               THEN /\ resp'.code = HTTP_200_OK
                    /\ Len(db'[a.trail]) = Len(db[a.trail]) + 1
                    /\ LET row == db'[a.trail][Len(db'[a.trail])] IN
                        /\ row.invoice = resp'.pk
                        /\ row.action = a.action
                        /\ row.actor = resp'.user
                        /\ row.notes = notes_stored(a, resp'.notes)
               ELSE /\ resp'.code # HTTP_200_OK
                    /\ db'[a.trail] = db[a.trail]

\* The notes of the row: a Commercial Invoice's reject notes without their
\* leading and trailing whitespace, a Proforma Invoice's reject notes as given,
\* none for the other transitions.
notes_trimmed(a, notes) ==
    IF a.action # "REJECTED" THEN ""
    ELSE IF a.table = "CommercialInvoice" THEN strip(notes) ELSE notes

\* The notes of the row, as given for every reject.
notes_verbatim(a, notes) == IF a.action # "REJECTED" THEN "" ELSE notes

\* C13: a successful status-changing transition of a Proforma or Commercial
\* Invoice appends exactly one audit row for that invoice, with the matching
\* action, the acting user and the reject notes (a Commercial Invoice's
\* trimmed of surrounding whitespace, a Proforma Invoice's as given); a
\* transition request that does not change the status is not answered 200
\* and appends none; and no request changes or removes a stored audit row.
C13_OneAuditRowPerTransition ==
    [][AuditRowPerTransition(notes_trimmed) /\ AuditTrailOnlyGrows]_vars

\* C13 as first stated: the reject notes are stored verbatim.
C13_RejectNotesVerbatim ==
    [][AuditRowPerTransition(notes_verbatim) /\ AuditTrailOnlyGrows]_vars

\* C13 happens: a checker has rejected a Commercial Invoice with notes between
\* blanks, and the REJECTED row holds the notes without the blanks.
C13_Witness ==
    /\ resp.op = "CommercialInvoiceViewSet.reject"
    /\ resp.code = HTTP_200_OK
    /\ resp.notes = " fix HS code "
    /\ LET trail == db.CommercialInvoiceAuditTrail IN
        /\ trail # <<>>
        /\ trail[Len(trail)].action = "REJECTED"
        /\ trail[Len(trail)].actor = resp.user
        /\ trail[Len(trail)].notes = "fix HS code"

\* The audit action of each state-changing action on a stored Proforma Invoice.
ProformaInvoice_audited ==
    {[op |-> "ProformaInvoiceViewSet.update", action |-> "EDITED"],
     [op |-> "ProformaInvoiceViewSet.submit", action |-> "SUBMITTED"],
     [op |-> "ProformaInvoiceViewSet.approve", action |-> "APPROVED"],
     [op |-> "ProformaInvoiceViewSet.reject", action |-> "REJECTED"],
     [op |-> "ProformaInvoiceViewSet.deactivate", action |-> "DEACTIVATED"],
     [op |-> "ProformaInvoiceViewSet.pdf", action |-> "PDF_DOWNLOADED"]}

\* The trail of the Proforma Invoices has gained exactly one row, of an action
\* on an invoice.
ProformaInvoice_logged(action, pk) ==
    LET trail == db'.ProformaInvoiceAuditTrail IN
    /\ Len(trail) = Len(db.ProformaInvoiceAuditTrail) + 1
    /\ SubSeq(trail, 1, Len(trail) - 1) = db.ProformaInvoiceAuditTrail
    /\ trail[Len(trail)].invoice = pk
    /\ trail[Len(trail)].action = action

\* C14: every state-changing action on a Proforma Invoice appends one row to
\* its audit trail: a create that stores the invoice appends CREATED, and a
\* header edit, submit, approve, reject, deactivate and pdf download answered
\* 200 append EDITED, SUBMITTED, APPROVED, REJECTED, DEACTIVATED and
\* PDF_DOWNLOADED.
C14_ProformaInvoiceAuditEveryAction ==
    [][ /\ (/\ resp'.op = "ProformaInvoiceViewSet.create"
            /\ Len(db'.ProformaInvoice) = Len(db.ProformaInvoice) + 1)
                => ProformaInvoice_logged("CREATED", Len(db'.ProformaInvoice))
        /\ \A a \in ProformaInvoice_audited :
            (resp'.op = a.op /\ resp'.code = HTTP_200_OK)
                => ProformaInvoice_logged(a.action, resp'.pk)
      ]_vars

\* The line-item routes of the invoices, with their tables.
LineItemOps ==
    {[ops |-> {"ProformaInvoiceViewSet.line_items",
               "ProformaInvoiceViewSet.update_line_item",
               "ProformaInvoiceViewSet.deactivate_line_item"},
      table |-> "ProformaInvoice", items |-> "ProformaInvoiceLineItem"],
     [ops |-> {"CommercialInvoiceViewSet.line_items",
               "CommercialInvoiceViewSet.update_line_item",
               "CommercialInvoiceViewSet.deactivate_line_item"},
      table |-> "CommercialInvoice", items |-> "CommercialInvoiceLineItem"]}

\* The sum of the stored amounts of the active line items of an invoice.
active_amounts(items, pk) ==
    SumSeq([i \in 1 .. Len(items) |->
        IF items[i].invoice = pk /\ items[i].is_active THEN items[i].amount_usd ELSE 0])

\* Every stored amount is its quantity times its unit price, to the cent, and
\* every stored total is the sum of the amounts of the invoice's active items.
TotalsAgree(d, l) ==
    /\ \A i \in DOMAIN d[l.items] :
        d[l.items][i].amount_usd =
            round_half_even(d[l.items][i].quantity * d[l.items][i].unit_price_usd, 1000)
    /\ \A pk \in DOMAIN d[l.table] :
        d[l.table][pk].total_amount_usd = active_amounts(d[l.items], pk)

\* C15: a line-item create, update or deactivate of a Proforma or Commercial
\* Invoice, on a database whose amounts and totals agree, leaves every line
\* item's amount equal to quantity x unit price (to the cent) and every
\* invoice's total_amount_usd equal to the sum of the amounts of its active
\* line items.
C15_TotalIsSumOfActiveItems ==
    [][ \A l \in LineItemOps :
            (resp'.op \in l.ops /\ TotalsAgree(db, l)) => TotalsAgree(db', l)
      ]_vars

\* The creations: their handler, table and the letters of the table's numbers.
Creates ==
    {[ops |-> {"ProformaInvoiceViewSet.create"}, table |-> "ProformaInvoice",
      letters |-> "PI"],
     [ops |-> {"PackingListViewSet.create"}, table |-> "PackingList",
      letters |-> "PL"],
     [ops |-> {"CommercialInvoiceViewSet.create",
               "PackingListViewSet.create_from_packing_list"},
      table |-> "CommercialInvoice", letters |-> "CI"]}

\* How many documents of a table were created in a year, inactive ones too.
created_in(table, year) ==
    Cardinality({pk \in DOMAIN table : table[pk].created_at = year})

\* C16: a creation that stores a document gives it the number made of its
\* type's letters, the current year and k written with four digits, where the
\* document is the k-th of its type created in that year, counting the
\* inactive ones (PI-2025-0001, then PI-2025-0002; the first of the next year
\* is PI-2026-0001).
C16_NumbersAreSequentialPerYear ==
    [][ \A c \in Creates :
            (resp'.op \in c.ops /\ Len(db'[c.table]) = Len(db[c.table]) + 1)
                => LET k == created_in(db[c.table], db.year) + 1 IN
                   db'[c.table][Len(db'[c.table])].number
                        = <<c.letters, db.year, <<0, 0, 0, k>>>>
      ]_vars

\* C16 happens: a Proforma Invoice has just been created as the second of its
\* year after the first was deactivated, and holds PI-2025-0002.
C16_Witness ==
    /\ resp.op = "ProformaInvoiceViewSet.create"
    /\ Len(db.ProformaInvoice) = 2
    /\ ~db.ProformaInvoice[1].is_active
    /\ db.ProformaInvoice[1].created_at = db.year
    /\ db.ProformaInvoice[2].number = <<"PI", 2025, <<0, 0, 0, 2>>>>

\* No two documents of a table hold the same number.
NumbersDiffer(d) ==
    \A t \in {"ProformaInvoice", "PackingList", "CommercialInvoice"} :
        \A i, j \in DOMAIN d[t] : d[t][i].number = d[t][j].number => i = j

\* C17: no request changes the number of a stored document, and after every
\* request no two documents of the same type hold the same number, the
\* inactive ones included.
C17_NumberAssignedOnce ==
    [][ /\ \A t \in {"ProformaInvoice", "PackingList", "CommercialInvoice"} :
            \A pk \in DOMAIN db[t] : db'[t][pk].number = db[t][pk].number
        /\ NumbersDiffer(db')
      ]_vars

\* C17 happens: a maker's update of a Packing List that carried a number was
\* answered 200, and the Packing List holds the number it was created with.
C17_Witness ==
    /\ resp.op = "PackingListViewSet.update"
    /\ resp.code = HTTP_200_OK
    /\ db.PackingList[resp.pk].invoice_number = "INV-9"
    /\ db.PackingList[resp.pk].number = <<"PL", 2025, <<0, 0, 0, 1>>>>

-----------------------------------------------------------------------------
(* C18: what the aggregation of a Packing List yields *)

AggregateFromPackingList == "PackingListViewSet.aggregate_from_packing_list"
CreateFromPackingList == "PackingListViewSet.create_from_packing_list"

\* The active items in the active containers of a Packing List.
ActiveMembers(d, pl) ==
    {i \in DOMAIN d.PackingListContainerItem :
        LET it == d.PackingListContainerItem[i] IN
        /\ it.is_active /\ ~it.deleted
        /\ \E c \in DOMAIN d.PackingListContainer :
            /\ c = it.container
            /\ d.PackingListContainer[c].is_active /\ ~d.PackingListContainer[c].deleted
            /\ d.PackingListContainer[c].packing_list = pl}

\* The members with one (item code, unit-of-measure id) pair.
MembersOf(d, pl, key) ==
    {i \in ActiveMembers(d, pl) :
        <<d.PackingListContainerItem[i].item_code, d.PackingListContainerItem[i].uom>> = key}

KeysOf(d, pl) ==
    {<<d.PackingListContainerItem[i].item_code, d.PackingListContainerItem[i].uom>> :
        i \in ActiveMembers(d, pl)}

RECURSIVE SumOfQuantities(_, _)
SumOfQuantities(items, members) ==
    IF members = {} THEN 0
    ELSE LET i == CHOOSE m \in members : TRUE
         IN  items[i].quantity + SumOfQuantities(items, members \ {i})

ContainersOf(items, members) == {items[i].container : i \in members}

\* One group per pair, with the sum and the containers of its members.
ExpectedGroups(d, pl) ==
    {[key |-> key,
      quantity |-> SumOfQuantities(d.PackingListContainerItem, MembersOf(d, pl, key)),
      container_ids |-> ContainersOf(d.PackingListContainerItem, MembersOf(d, pl, key))] :
        key \in KeysOf(d, pl)}

GroupsFound(groups) ==
    {[key |-> groups[k].key, quantity |-> groups[k].quantity,
      container_ids |-> groups[k].container_ids] : k \in DOMAIN groups}

\* C18: for every order in which the items can be visited, the aggregation of
\* a Packing List yields exactly one group per distinct (item code,
\* unit-of-measure id) pair of its active items in active containers, with
\* the sum of their quantities and the set of their containers; and the
\* line_items an aggregation call answers with are those groups.
C18_AggregationIsAFunctionOfActiveItems ==
    /\ \A pl \in DOMAIN db.PackingList : \A order \in Orders(db, pl) :
        LET groups == aggregate_groups(db, pl, order) IN
        /\ GroupsFound(groups) = ExpectedGroups(db, pl)
        /\ Len(groups) = Cardinality(KeysOf(db, pl))
    /\ (resp.op = AggregateFromPackingList /\ resp.code = HTTP_200_OK) =>
        /\ Len(resp.data) = Cardinality(KeysOf(db, resp.pk))
        /\ {[key |-> <<resp.data[k].item_code, resp.data[k].unit_id>>,
             quantity |-> resp.data[k].quantity] : k \in DOMAIN resp.data}
           = {[key |-> g.key, quantity |-> g.quantity] : g \in ExpectedGroups(db, resp.pk)}

\* An aggregation answered with one group of 3.000 out of two containers
\* holding 1.500 each.
C18_Witness ==
    /\ resp.op = AggregateFromPackingList /\ resp.code = HTTP_200_OK
    /\ Len(resp.data) = 1 /\ resp.data[1].quantity = 3000
    /\ \E g \in ExpectedGroups(db, resp.pk) : g.container_ids = {1, 2}

-----------------------------------------------------------------------------
(* C19: the marker of a group fed by more than one container *)

HasMarker(description) ==
    \E k \in DOMAIN description : description[k] = In_every_container

MarkerCount(description) ==
    Cardinality({k \in DOMAIN description : description[k] = In_every_container})

\* The description a group starts from: that of its first member visited.
FirstDescription(d, order, key) ==
    LET at == {k \in DOMAIN order :
                 <<d.PackingListContainerItem[order[k]].item_code,
                   d.PackingListContainerItem[order[k]].uom>> = key}
        first == CHOOSE k \in at : \A j \in at : k <= j
    IN  d.PackingListContainerItem[order[first]].description_of_goods

\* What the group of a key is described as.
MarkedDescription(d, pl, order, key) ==
    LET description == FirstDescription(d, order, key)
        containers == ContainersOf(d.PackingListContainerItem, MembersOf(d, pl, key))
    IN  IF Cardinality(containers) > 1 /\ ~HasMarker(description)
        THEN description \o <<In_every_container>>
        ELSE description

\* The line items of the Commercial Invoice made last.
CreatedLineItems(d) ==
    {i \in DOMAIN d.CommercialInvoiceLineItem :
        d.CommercialInvoiceLineItem[i].invoice = Len(d.CommercialInvoice)}

\* C19: the description of every group an aggregation answers with, and of
\* every line item a creation from a Packing List stores, is the group's
\* description with "In every container" appended exactly when more than one
\* container fed the group and the description lacked the text, and the text
\* is in it at most once.
C19_MarkerExactlyForSeveralContainers ==
    /\ (resp.op = AggregateFromPackingList /\ resp.code = HTTP_200_OK) =>
        \A k \in DOMAIN resp.data :
            /\ resp.data[k].description =
                MarkedDescription(db, resp.pk, resp.order,
                                  <<resp.data[k].item_code, resp.data[k].unit_id>>)
            /\ MarkerCount(resp.data[k].description) <= 1
    /\ (resp.op = CreateFromPackingList /\ resp.code = HTTP_201_CREATED) =>
        /\ Cardinality(CreatedLineItems(db)) = Cardinality(KeysOf(db, resp.pk))
        /\ \A i \in CreatedLineItems(db) :
            LET li == db.CommercialInvoiceLineItem[i] IN
            /\ \E key \in KeysOf(db, resp.pk) :
                /\ li.item_code = key[1]
                /\ li.quantity = SumOfQuantities(db.PackingListContainerItem,
                                                 MembersOf(db, resp.pk, key))
                /\ li.description = MarkedDescription(db, resp.pk, resp.order, key)
            /\ MarkerCount(li.description) <= 1

\* A Commercial Invoice made with a line item marked "In every container",
\* out of two containers whose items are not marked.
C19_Witness ==
    /\ resp.op = CreateFromPackingList /\ resp.code = HTTP_201_CREATED
    /\ \E i \in CreatedLineItems(db) :
        HasMarker(db.CommercialInvoiceLineItem[i].description)
    /\ \A i \in ActiveMembers(db, resp.pk) :
        ~HasMarker(db.PackingListContainerItem[i].description_of_goods)

-----------------------------------------------------------------------------
(* C20: what create-from-packing-list refuses *)

\* The unit prices a body supplies for a group.
SuppliedPrices(line_items_input, key) ==
    {line_items_input[k].unit_price_usd : k \in
        {j \in DOMAIN line_items_input :
            <<line_items_input[j].item_code, line_items_input[j].unit_id>> = key}}

\* A group without a supplied price, with a price that is not positive, or
\* with a quantity that is not positive.
GroupRefused(d, pl, line_items_input, key) ==
    \/ SuppliedPrices(line_items_input, key) = {}
    \/ \E p \in SuppliedPrices(line_items_input, key) : p <= 0
    \/ SumOfQuantities(d.PackingListContainerItem, MembersOf(d, pl, key)) <= 0

Refused(d, body) ==
    /\ body.packing_list_id \in DOMAIN d.PackingList
    /\ \/ d.PackingList[body.packing_list_id].status # "APPROVED"
       \/ \E key \in KeysOf(d, body.packing_list_id) :
            GroupRefused(d, body.packing_list_id, body.line_items, key)

\* What a creation stores.
Stored(d) ==
    <<d.CommercialInvoice, d.CommercialInvoiceLineItem, d.CommercialInvoiceAuditTrail>>

\* What create-from-packing-list answers to every request it can be sent.
CreateFromPackingListRefuses ==
    \A user \in Users, body \in CreateFromPackingListBodies :
        \A order \in Orders(db, body.packing_list_id) :
            LET r == PackingListViewSet_create_from_packing_list(db, user, body, order) IN
            /\ Refused(db, body) =>
                /\ r.code \in {HTTP_400_BAD_REQUEST, HTTP_403_FORBIDDEN, HTTP_404_NOT_FOUND}
                /\ Stored(r.db) = Stored(db)
                /\ (/\ user \in {"maker", "admin"}
                    /\ body.bank_id # 0
                    /\ db.PackingList[body.packing_list_id].is_active)
                        => r.code = HTTP_400_BAD_REQUEST
            /\ r.code = HTTP_201_CREATED =>
                /\ ~Refused(db, body)
                /\ db.PackingList[body.packing_list_id].status = "APPROVED"

\* A request that is not answered 201 stores nothing; one answered 201 was
\* for an APPROVED Packing List.
CreateFromPackingListStores ==
    resp'.op = CreateFromPackingList =>
        IF resp'.code = HTTP_201_CREATED
        THEN db.PackingList[resp'.pk].status = "APPROVED"
        ELSE Stored(db') = Stored(db)

\* C20: whoever asks, with whatever rates and in whatever order the items
\* are visited, create-from-packing-list answers with an error (400 to a
\* maker or admin naming a bank and an active Packing List) and stores no
\* Commercial Invoice, line item or audit row when the Packing List is not
\* APPROVED or a group has no supplied price, a price <= 0 or a quantity
\* <= 0; it answers 201 only for an APPROVED Packing List all of whose
\* groups have a positive price and quantity.
C20_CreateFromPackingListValidates ==
    /\ []CreateFromPackingListRefuses
    /\ [][CreateFromPackingListStores]_vars

\* A creation refused for the quantity of a group, every rate being there.
C20_Witness ==
    /\ resp.op = CreateFromPackingList
    /\ resp.code = HTTP_400_BAD_REQUEST
    /\ resp.detail = "Quantity must be greater than zero."
    /\ db.CommercialInvoice = <<>>
-----------------------------------------------------------------------------
(* C21: create-from-packing-list stores all of an invoice or nothing *)

\* The rows a table has gained.
NewRows(before, after) == {i \in DOMAIN after : i \notin DOMAIN before}

Kept(before, after) ==
    /\ Len(after) >= Len(before)
    /\ SubSeq(after, 1, Len(before)) = before

\* The database holds one more Commercial Invoice than before, a DRAFT made
\* from the Packing List, with one line item per group carrying the group's
\* sum and the supplied rate, and a total that is the sum of their amounts.
WholeInvoice(before, after, pl, line_items_input) ==
    LET ci == Len(before.CommercialInvoice) + 1
        items == after.CommercialInvoiceLineItem
        new == NewRows(before.CommercialInvoiceLineItem, items)
    IN  /\ Len(after.CommercialInvoice) = ci
        /\ Kept(before.CommercialInvoice, after.CommercialInvoice)
        /\ Kept(before.CommercialInvoiceLineItem, items)
        /\ after.CommercialInvoice[ci].status = "DRAFT"
        /\ after.CommercialInvoice[ci].packing_list = pl
        /\ Cardinality(new) = Cardinality(KeysOf(before, pl))
        /\ \A i \in new : items[i].invoice = ci /\ items[i].is_active
        /\ \A key \in KeysOf(before, pl) :
            Cardinality({i \in new :
                /\ items[i].item_code = key[1]
                /\ items[i].quantity =
                     SumOfQuantities(before.PackingListContainerItem,
                                     MembersOf(before, pl, key))
                /\ SuppliedPrices(line_items_input, key) = {items[i].unit_price_usd}}) = 1
        /\ after.CommercialInvoice[ci].total_amount_usd =
             SumSeq([i \in DOMAIN items |->
                        IF i \in new THEN items[i].amount_usd ELSE 0])

\* Whatever the request, the handler leaves a whole invoice or nothing new.
CreateFromPackingListAllOrNothing ==
    \A user \in Users, body \in CreateFromPackingListBodies :
        \A order \in Orders(db, body.packing_list_id) :
            LET r == PackingListViewSet_create_from_packing_list(db, user, body, order) IN
            IF r.code = HTTP_201_CREATED
            THEN WholeInvoice(db, r.db, body.packing_list_id, body.line_items)
            ELSE Stored(r.db) = Stored(db)

\* No step of the handler leaves a header without all of its line items, or
\* line items without their header.
CreateFromPackingListCommits ==
    resp'.op = CreateFromPackingList =>
        \/ resp'.code # HTTP_201_CREATED /\ Stored(db') = Stored(db)
        \/ /\ resp'.code = HTTP_201_CREATED
           /\ Len(db'.CommercialInvoice) = Len(db.CommercialInvoice) + 1
           /\ \A i \in NewRows(db.CommercialInvoiceLineItem, db'.CommercialInvoiceLineItem) :
                db'.CommercialInvoiceLineItem[i].invoice = Len(db'.CommercialInvoice)
           /\ Cardinality(NewRows(db.CommercialInvoiceLineItem,
                                  db'.CommercialInvoiceLineItem))
                = Cardinality(KeysOf(db, resp'.pk))

\* C21: create-from-packing-list is all-or-nothing: after it returns, with
\* success or with a failure at any step, either a new DRAFT Commercial
\* Invoice is stored with exactly one line item per aggregation group
\* (quantity the group's sum, price the supplied rate) and a total equal to
\* the sum of those items' amounts, or nothing new is stored.
C21_CreateFromPackingListIsAllOrNothing ==
    /\ []CreateFromPackingListAllOrNothing
    /\ [][CreateFromPackingListCommits]_vars

\* A creation that failed inside the transaction, on the bank, for a Packing
\* List whose groups were all in order: nothing is stored.
C21_Witness ==
    /\ resp.op = CreateFromPackingList
    /\ resp.code = HTTP_500_INTERNAL_SERVER_ERROR
    /\ KeysOf(db, resp.pk) # {}
    /\ db.CommercialInvoice = <<>> /\ db.CommercialInvoiceLineItem = <<>>

-----------------------------------------------------------------------------
(* C22: the Commercial Invoice end-to-end run, step by step *)

\* The request handled is this route's, by this user, for an active invoice
\* in this status.
CommercialInvoiceStep(route, user, status) ==
    /\ resp'.op = route /\ resp'.user = user
    /\ resp'.pk \in DOMAIN db.CommercialInvoice
    /\ db.CommercialInvoice[resp'.pk].is_active
    /\ db.CommercialInvoice[resp'.pk].status = status

\* The request has appended one audit row, with this action and these notes.
OneAuditRow(action, notes) ==
    LET trail == db'.CommercialInvoiceAuditTrail IN
    /\ Len(trail) = Len(db.CommercialInvoiceAuditTrail) + 1
    /\ SubSeq(trail, 1, Len(trail) - 1) = db.CommercialInvoiceAuditTrail
    /\ trail[Len(trail)].invoice = resp'.pk
    /\ trail[Len(trail)].action = action
    /\ trail[Len(trail)].actor = resp'.user
    /\ trail[Len(trail)].notes = notes

MakerSubmits ==
    \A status \in {"DRAFT", "REJECTED"} :
        CommercialInvoiceStep("CommercialInvoiceViewSet.submit", "maker", status) =>
            /\ resp'.code = HTTP_200_OK
            /\ db'.CommercialInvoice[resp'.pk].status = "PENDING_APPROVAL"
            /\ db'.CommercialInvoice[resp'.pk].submitted_at = timezone_now(db)
            /\ OneAuditRow("SUBMITTED", "")

CheckerRejects ==
    CommercialInvoiceStep("CommercialInvoiceViewSet.reject", "checker", "PENDING_APPROVAL") =>
        IF strip(resp'.notes) = ""
        THEN /\ resp'.code = HTTP_400_BAD_REQUEST
             /\ db' = db
        ELSE /\ resp'.code = HTTP_200_OK
             /\ db'.CommercialInvoice[resp'.pk].status = "REJECTED"
             /\ OneAuditRow("REJECTED", strip(resp'.notes))

MakerEdits ==
    CommercialInvoiceStep("CommercialInvoiceViewSet.update", "maker", "REJECTED") =>
        /\ resp'.code = HTTP_200_OK
        /\ OneAuditRow("EDITED", "")

CheckerApproves ==
    CommercialInvoiceStep("CommercialInvoiceViewSet.approve", "checker", "PENDING_APPROVAL") =>
        /\ resp'.code = HTTP_200_OK
        /\ db'.CommercialInvoice[resp'.pk].status = "APPROVED"
        /\ db'.CommercialInvoice[resp'.pk].approved_at = timezone_now(db)
        /\ db'.CommercialInvoice[resp'.pk].last_checker = "checker"

CheckerDisables ==
    CommercialInvoiceStep("CommercialInvoiceViewSet.disable", "checker", "APPROVED") =>
        /\ resp'.code = HTTP_200_OK
        /\ db'.CommercialInvoice[resp'.pk].status = "DISABLED"

DeactivateRefused ==
    \A user \in Users :
        CommercialInvoiceStep("CommercialInvoiceViewSet.deactivate", user, "DISABLED") =>
            /\ resp'.code = HTTP_400_BAD_REQUEST
            /\ db' = db

\* C22: at every point of the end-to-end run of a Commercial Invoice the
\* next step does what is stated: a maker's submit of a DRAFT (or REJECTED)
\* invoice leaves it PENDING_APPROVAL with submitted_at set and one SUBMITTED
\* audit row; a checker's reject without notes is a validation error that
\* changes nothing; a checker's reject with notes leaves it REJECTED with one
\* REJECTED audit row holding the notes; the maker may edit it and resubmit;
\* a checker's approve leaves it APPROVED with approved_at set and
\* last_checker that checker; a checker's disable leaves it DISABLED; and a
\* deactivate of the DISABLED invoice is refused and changes nothing.
C22_CommercialInvoiceEndToEnd ==
    [][/\ MakerSubmits /\ CheckerRejects /\ MakerEdits
       /\ CheckerApproves /\ CheckerDisables /\ DeactivateRefused]_vars

\* The whole run has happened: the trail holds its rows in order, the
\* invoice is DISABLED and active, and the deactivate has just been refused.
C22_Witness ==
    /\ resp.op = "CommercialInvoiceViewSet.deactivate"
    /\ resp.code = HTTP_400_BAD_REQUEST
    /\ resp.pk \in DOMAIN db.CommercialInvoice
    /\ db.CommercialInvoice[resp.pk].status = "DISABLED"
    /\ db.CommercialInvoice[resp.pk].is_active
    /\ [k \in DOMAIN db.CommercialInvoiceAuditTrail |->
            db.CommercialInvoiceAuditTrail[k].action]
         = <<"CREATED", "SUBMITTED", "REJECTED", "EDITED", "SUBMITTED",
             "APPROVED", "DISABLED">>

-----------------------------------------------------------------------------
(* C23: PDF rendering is gated by the status *)

PdfRoutes ==
    {[op |-> "ProformaInvoiceViewSet.pdf", table |-> "ProformaInvoice"],
     [op |-> "CommercialInvoiceViewSet.pdf", table |-> "CommercialInvoice"],
     [op |-> "PackingListViewSet.pdf", table |-> "PackingList"]}

\* C23: the pdf action of the three document types answers with a document
\* only for an APPROVED document; the pdf_draft action of a Commercial
\* Invoice answers with a document only for an invoice that is DRAFT,
\* PENDING_APPROVAL or REJECTED, and is refused once it is APPROVED or
\* DISABLED; and neither action changes the stored document.
C23_PdfIsGatedByStatus ==
    [][/\ \A route \in PdfRoutes :
            (resp'.op = route.op /\ resp'.pk \in DOMAIN db[route.table]) =>
                /\ resp'.code = HTTP_200_OK =>
                        db[route.table][resp'.pk].status = "APPROVED"
                /\ db'[route.table] = db[route.table]
       /\ (/\ resp'.op = "CommercialInvoiceViewSet.pdf_draft"
           /\ resp'.pk \in DOMAIN db.CommercialInvoice) =>
                /\ resp'.code = HTTP_200_OK =>
                        db.CommercialInvoice[resp'.pk].status
                            \in {"DRAFT", "PENDING_APPROVAL", "REJECTED"}
                /\ db.CommercialInvoice[resp'.pk].status \in {"APPROVED", "DISABLED"}
                        => resp'.code # HTTP_200_OK
                /\ db'.CommercialInvoice = db.CommercialInvoice]_vars

-----------------------------------------------------------------------------
(* C24: no stored row is ever physically removed *)

DestroyRoutes ==
    {"ProformaInvoiceViewSet.destroy", "CommercialInvoiceViewSet.destroy",
     "PackingListViewSet.destroy"}

Tables ==
    {"ProformaInvoice", "ProformaInvoiceLineItem", "ProformaInvoiceAuditTrail",
     "CommercialInvoice", "CommercialInvoiceLineItem", "CommercialInvoiceAuditTrail",
     "PackingList", "PackingListContainer", "PackingListContainerItem"}

\* The rows a table stores.
StoredRows(d, table) ==
    IF table \in {"PackingListContainer", "PackingListContainerItem"}
    THEN {i \in DOMAIN d[table] : ~d[table][i].deleted}
    ELSE DOMAIN d[table]

\* C24: DELETE on a document is answered 405 and changes nothing, and no
\* request, a Packing List update that leaves out stored containers or items
\* included, removes a stored row of any table: the set of stored rows of
\* every entity type never shrinks.
C24_NoRowIsPhysicallyRemoved ==
    [][/\ resp'.op \in DestroyRoutes =>
            /\ resp'.code = HTTP_405_METHOD_NOT_ALLOWED
            /\ db' = db
       /\ \A table \in Tables : StoredRows(db, table) \subseteq StoredRows(db', table)]_vars

-----------------------------------------------------------------------------
(* C30: a Packing List update changes only what its payload names *)

\* The stored items of a container.
ItemsOf(d, container) ==
    {i \in StoredRows(d, "PackingListContainerItem") :
        d.PackingListContainerItem[i].container = container}

\* The container and its items are stored after as they were before.
ContainerUntouched(before, after, container) ==
    /\ container \in StoredRows(after, "PackingListContainer")
    /\ after.PackingListContainer[container] = before.PackingListContainer[container]
    /\ ItemsOf(after, container) = ItemsOf(before, container)
    /\ \A i \in ItemsOf(before, container) :
        after.PackingListContainerItem[i] = before.PackingListContainerItem[i]

\* C30: whoever sends it and whatever it carries, a PATCH of a Packing List
\* without a containers field leaves the stored containers and their items
\* as they were, and an update that lists containers leaves every stored
\* container it does not mention, and that container's items, as they were.
C30_PackingListUpdateChangesOnlyWhatItNames ==
    \A user \in Users, pk \in DOMAIN db.PackingList, body \in PackingListUpdateBodies :
        LET r == Handle(db, [Request("PackingListViewSet.update", user, pk) EXCEPT
                                !.body = body])
            mentioned == IF "containers" \in DOMAIN body
                         THEN processed_ids(body.containers) ELSE {}
        IN  \A container \in StoredRows(db, "PackingListContainer") \ mentioned :
                ContainerUntouched(db, r.db, container)

-----------------------------------------------------------------------------
(* C25: the race of the sequential number *)

\* Both creations have counted the rows and neither has inserted its own.
BothCounted ==
    \A p \in Creations : inflight[p].pc = "super().save"

\* The rows of the year's prefix, as the count finds them.
RowsWithPrefix(table, letters, year) ==
    {pk \in DOMAIN table : table[pk].number[1] = letters /\ table[pk].number[2] = year}

\* C25: two creations of a Proforma Invoice that both count the rows with
\* the year's prefix before either inserts hold the same number, the count
\* plus one; the unique index then lets only one of them store it, and the
\* numbers of the stored rows of the year stay distinct.
C25_ConcurrentCreationsDeriveTheSameNumber ==
    /\ BothCounted =>
        /\ inflight[1].number = inflight[2].number
        /\ inflight[1].number[1] = "PI" /\ inflight[1].number[2] = db.year
        /\ inflight[1].number[3] =
            zero_pad(digits(Cardinality(RowsWithPrefix(db.ProformaInvoice, "PI", db.year)) + 1), 4)
    /\ \A pk1, pk2 \in RowsWithPrefix(db.ProformaInvoice, "PI", db.year) :
        db.ProformaInvoice[pk1].number = db.ProformaInvoice[pk2].number => pk1 = pk2

\* The interleaving has happened: both derived one number, the first stored
\* it and the second was refused.
C25_Witness ==
    /\ DOMAIN inflight = Creations
    /\ inflight[1].pc = "saved" /\ inflight[2].pc = "IntegrityError"
    /\ inflight[1].number = inflight[2].number
    /\ \E pk \in DOMAIN db.ProformaInvoice :
        db.ProformaInvoice[pk].number = inflight[1].number

-----------------------------------------------------------------------------
(* C27: an approve and a reject of one pending invoice, side by side *)

\* Both requests read the invoice as PENDING_APPROVAL, and both are answered.
BothDecided ==
    \A decision \in Decisions :
        /\ inflight[decision].pc = "done"
        /\ inflight[decision].instance.status = "PENDING_APPROVAL"

\* The request changed the invoice.
TookEffect(decision) == inflight[decision].code = HTTP_200_OK

\* C27: when an approve and a reject of the same PENDING_APPROVAL invoice
\* are served side by side, at most one of them takes effect: once both are
\* answered the trail does not hold an APPROVED and a REJECTED row of that
\* round, the status is the one of the newest of these rows, and only the
\* timestamp of that status was set in the round.
C27_AtMostOneDecisionTakesEffect ==
    BothDecided =>
        LET invoice == inflight["approve"].invoice
            row == db[invoice.table][1]
            trail == db[invoice.trail]
            newest == trail[Len(trail)]
            rejected_at == IF invoice.table = "ProformaInvoice"
                           THEN row.reworked_at ELSE row.rejected_at
        IN  /\ ~(TookEffect("approve") /\ TookEffect("reject"))
            /\ newest.action = "APPROVED" =>
                    /\ row.status = "APPROVED"
                    /\ row.approved_at # NullTime /\ rejected_at = NullTime
            /\ newest.action = "REJECTED" =>
                    /\ row.status \in {"REWORK", "REJECTED"}
                    /\ rejected_at # NullTime /\ row.approved_at = NullTime

\* The timestamps and the checker that the status of a Proforma Invoice row
\* stands on.
ProformaInvoiceBacked(row) ==
    /\ row.status = "PENDING_APPROVAL" => row.submitted_at # NullTime
    /\ row.status = "APPROVED" =>
            row.approved_at # NullTime /\ row.last_checker # None
    /\ row.status = "REWORK" =>
            row.reworked_at # NullTime /\ row.last_checker # None
    /\ row.status = "DRAFT" =>
            /\ row.submitted_at = NullTime /\ row.approved_at = NullTime
            /\ row.reworked_at = NullTime

\* The same for a Commercial Invoice row.
CommercialInvoiceBacked(row) ==
    /\ row.status = "PENDING_APPROVAL" => row.submitted_at # NullTime
    /\ row.status = "APPROVED" =>
            row.approved_at # NullTime /\ row.last_checker # None
    /\ row.status = "REJECTED" =>
            row.rejected_at # NullTime /\ row.last_checker # None
    /\ row.status = "DISABLED" =>
            row.disabled_at # NullTime /\ row.approved_at # NullTime
    /\ row.status = "DRAFT" =>
            /\ row.submitted_at = NullTime /\ row.approved_at = NullTime
            /\ row.rejected_at = NullTime /\ row.disabled_at = NullTime

\* C26: in every reachable state the status of each Proforma and Commercial
\* Invoice is backed by its timestamps and checker: PENDING_APPROVAL has
\* submitted_at; APPROVED has approved_at and last_checker; REWORK has
\* reworked_at and last_checker; REJECTED has rejected_at and last_checker;
\* DISABLED has disabled_at and approved_at; DRAFT has none of the timestamps.
C26_StatusIsBackedByTimestamps ==
    /\ \A pk \in DOMAIN db.ProformaInvoice :
            ProformaInvoiceBacked(db.ProformaInvoice[pk])
    /\ \A pk \in DOMAIN db.CommercialInvoice :
            CommercialInvoiceBacked(db.CommercialInvoice[pk])

\* A Commercial Invoice has just been disabled.
C26_Witness ==
    /\ resp.op = "CommercialInvoiceViewSet.disable"
    /\ resp.code = HTTP_200_OK
    /\ db.CommercialInvoice[resp.pk].status = "DISABLED"
    /\ db.CommercialInvoice[resp.pk].disabled_at # NullTime
    /\ db.CommercialInvoice[resp.pk].approved_at # NullTime

\* The operations that store, change or deactivate Commercial Invoice line items.
CommercialInvoiceLineItemOps ==
    {"CommercialInvoiceViewSet.line_items",
     "CommercialInvoiceViewSet.update_line_item",
     "CommercialInvoiceViewSet.deactivate_line_item",
     "PackingListViewSet.create_from_packing_list"}

\* C28: after a successful line-item create, update or deactivate of a
\* Commercial Invoice, and after a successful create-from-packing-list, the
\* stored amount of every Commercial Invoice equals its stored
\* total_amount_usd.
C28_AmountMirrorsTotal ==
    [][(/\ resp'.op \in CommercialInvoiceLineItemOps
        /\ resp'.code \in {HTTP_200_OK, HTTP_201_CREATED})
       => \A pk \in DOMAIN db'.CommercialInvoice :
            db'.CommercialInvoice[pk].amount =
                db'.CommercialInvoice[pk].total_amount_usd]_vars

\* The line items stored before the step keep their parent invoice.
ParentsFixed(l) ==
    \A i \in DOMAIN db[l.items] :
        db'[l.items][i].invoice = db[l.items][i].invoice

\* The rows of the invoices other than pk are as they were.
OtherInvoicesUntouched(l, pk) ==
    \A other \in DOMAIN db[l.table] \ {pk} :
        db'[l.table][other] = db[l.table][other]

\* C29: a successful line-item create, update or deactivate addressed to
\* invoice X touches only invoice X: no stored line item changes its parent
\* invoice, and the row of every other invoice, its total included, is left
\* as it was.
C29_LineItemOperationTouchesOnlyItsInvoice ==
    [][\A l \in LineItemOps :
        (/\ resp'.op \in l.ops
         /\ resp'.code \in {HTTP_200_OK, HTTP_201_CREATED})
        => /\ ParentsFixed(l)
           /\ OtherInvoicesUntouched(l, resp'.pk)]_vars
=============================================================================
